---- MODULE Spec2Model ----
(***************************************************************************)
(* Model of the DEC ANSI terminal control sequence parser of               *)
(* src/src/dec_ansi_parser/parser.py: the transition table builder         *)
(* (expand_table), the interleaved byte/code point reader (try_unicode)    *)
(* and the Parser object (reset, clear, parse, process).                   *)
(*                                                                         *)
(* Enum members are modelled by their names (strings), Python's None for   *)
(* an absent target or action by the string "None", bytes and code points  *)
(* by integers.                                                            *)
(***************************************************************************)
EXTENDS Integers, Sequences, FiniteSets, TLC

\* ------------------------------------------------------------------------
\* Enumerations and the sparse transition tables
\* ------------------------------------------------------------------------

None == "None"

State ==
    { "ground", "escape", "escape_intermediate", "csi_entry", "csi_param",
      "csi_intermediate", "csi_ignore", "dcs_entry", "dcs_param",
      "dcs_intermediate", "dcs_passthrough", "dcs_ignore", "osc_string",
      "other_string" }

Action ==
    { "ignore", "print", "execute", "clear", "collect", "param",
      "esc_dispatch", "csi_dispatch", "hook", "put", "unhook", "osc_start",
      "osc_put", "osc_end" }

Transition(target, action) == [target |-> target, action |-> action]

do(action) == Transition(None, action)

to(state, action) == Transition(state, action)

\* an inclusive range of code points: r[a:b] gives myslice(a, b), r[a] gives
\* myslice(a, a)
myslice(start, stop) == [start |-> start, stop |-> stop]

\* one item of a RangeTransitions dict: a tuple of slices and its transition
Rule(slices, trans) == [slices |-> slices, trans |-> trans]

\* anywhere_table with ST counted among the other C1 controls
anywhere_table_st ==
    <<
      Rule(<<myslice(\H18, \H18), myslice(\H1A, \H1A)>>, to("ground", "execute")),
      Rule(<<myslice(\H1B, \H1B)>>, to("escape", None)),
      Rule(<<myslice(\H90, \H90)>>, to("dcs_entry", None)),
      Rule(<<myslice(\H9B, \H9B)>>, to("csi_entry", None)),
      Rule(<<myslice(\H9D, \H9D)>>, to("osc_string", None)),
      Rule(<<myslice(\H98, \H98), myslice(\H9E, \H9E), myslice(\H9F, \H9F)>>, to("other_string", None)),
      Rule(<<myslice(\H80, \H8F), myslice(\H91, \H97), myslice(\H99, \H9A), myslice(\H9C, \H9C)>>, to("ground", "execute"))
    >>

\* these override any conflicting transitions in other states
anywhere_table ==
    <<
      Rule(<<myslice(\H18, \H18), myslice(\H1A, \H1A)>>, to("ground", "execute")),
      Rule(<<myslice(\H1B, \H1B)>>, to("escape", None)),
      Rule(<<myslice(\H90, \H90)>>, to("dcs_entry", None)),
      Rule(<<myslice(\H9B, \H9B)>>, to("csi_entry", None)),
      Rule(<<myslice(\H9D, \H9D)>>, to("osc_string", None)),
      Rule(<<myslice(\H98, \H98), myslice(\H9E, \H9E), myslice(\H9F, \H9F)>>, to("other_string", None)),
      Rule(<<myslice(\H9C, \H9C)>>, to("ground", "ignore")),
      Rule(<<myslice(\H80, \H8F), myslice(\H91, \H97), myslice(\H99, \H99), myslice(\H9A, \H9A)>>, to("ground", "execute"))
    >>

\* r_normal_c0 with 0x19 (EM) left out
r_normal_c0_no19 == <<myslice(\H00, \H17), myslice(\H1C, \H1F)>>

r_normal_c0 == <<myslice(\H00, \H17), myslice(\H19, \H19), myslice(\H1C, \H1F)>>

\* the rules of csi_ignore with the final bytes dispatching as in csi_param
csi_ignore_rules_dispatch ==
    <<
      Rule(r_normal_c0, do("execute")),
      Rule(<<myslice(\H20, \H3F), myslice(\H7F, \H7F)>>, do("ignore")),
      Rule(<<myslice(\H40, \H7E)>>, to("ground", "csi_dispatch"))
    >>

\* range_table[csi_ignore]
csi_ignore_rules ==
    <<
      Rule(r_normal_c0, do("execute")),
      Rule(<<myslice(\H20, \H3F), myslice(\H7F, \H7F)>>, do("ignore")),
      Rule(<<myslice(\H40, \H7E)>>, to("ground", None))
    >>

\* the rules of dcs_ignore with the data bytes put as in dcs_passthrough
dcs_ignore_rules_put ==
    <<
      Rule(r_normal_c0, do("ignore")),
      Rule(<<myslice(\H20, \H7E)>>, do("put")),
      Rule(<<myslice(\H7F, \H7F)>>, do("ignore"))
    >>

\* range_table[dcs_ignore]
dcs_ignore_rules ==
    <<
      Rule(r_normal_c0, do("ignore")),
      Rule(<<myslice(\H20, \H7F)>>, do("ignore"))
    >>

range_table ==
       ("ground" :> <<
            Rule(r_normal_c0, do("execute")),
            Rule(<<myslice(\H20, \H7F)>>, do("print"))
        >>)
    @@ ("escape" :> <<
            Rule(r_normal_c0, do("execute")),
            Rule(<<myslice(\H20, \H2F)>>, to("escape_intermediate", "collect")),
            Rule(<<myslice(\H30, \H4F), myslice(\H51, \H57), myslice(\H59, \H59), myslice(\H5A, \H5A), myslice(\H5C, \H5C), myslice(\H60, \H7E)>>, to("ground", "esc_dispatch")),
            Rule(<<myslice(\H50, \H50)>>, to("dcs_entry", None)),
            Rule(<<myslice(\H5B, \H5B)>>, to("csi_entry", None)),
            Rule(<<myslice(\H5D, \H5D)>>, to("osc_string", None)),
            Rule(<<myslice(\H58, \H58), myslice(\H5E, \H5E), myslice(\H5F, \H5F)>>, to("other_string", None)),
            Rule(<<myslice(\H7F, \H7F)>>, do("ignore"))
        >>)
    @@ ("escape_intermediate" :> <<
            Rule(r_normal_c0, do("execute")),
            Rule(<<myslice(\H20, \H2F)>>, do("collect")),
            Rule(<<myslice(\H30, \H7E)>>, to("ground", "esc_dispatch")),
            Rule(<<myslice(\H7F, \H7F)>>, do("ignore"))
        >>)
    @@ ("csi_entry" :> <<
            Rule(r_normal_c0, do("execute")),
            Rule(<<myslice(\H20, \H2F)>>, to("csi_intermediate", "collect")),
            Rule(<<myslice(\H30, \H39), myslice(\H3B, \H3B)>>, to("csi_param", "param")),
            Rule(<<myslice(\H3A, \H3A)>>, to("csi_param", "param")),
            Rule(<<myslice(\H3C, \H3F)>>, to("csi_param", "collect")),
            Rule(<<myslice(\H40, \H7E)>>, to("ground", "csi_dispatch")),
            Rule(<<myslice(\H7F, \H7F)>>, do("ignore"))
        >>)
    @@ ("csi_param" :> <<
            Rule(r_normal_c0, do("execute")),
            Rule(<<myslice(\H20, \H2F)>>, to("csi_intermediate", "collect")),
            Rule(<<myslice(\H30, \H39), myslice(\H3B, \H3B)>>, do("param")),
            Rule(<<myslice(\H3A, \H3A)>>, do("param")),
            Rule(<<myslice(\H3C, \H3F)>>, to("csi_ignore", None)),
            Rule(<<myslice(\H40, \H7E)>>, to("ground", "csi_dispatch")),
            Rule(<<myslice(\H7F, \H7F)>>, do("ignore"))
        >>)
    @@ ("csi_intermediate" :> <<
            Rule(r_normal_c0, do("execute")),
            Rule(<<myslice(\H20, \H2F)>>, do("collect")),
            Rule(<<myslice(\H30, \H3F)>>, to("csi_ignore", None)),
            Rule(<<myslice(\H40, \H7E)>>, to("ground", "csi_dispatch")),
            Rule(<<myslice(\H7F, \H7F)>>, do("ignore"))
        >>)
    @@ ("csi_ignore" :> csi_ignore_rules)
    @@ ("dcs_entry" :> <<
            Rule(r_normal_c0, do("ignore")),
            Rule(<<myslice(\H20, \H2F)>>, to("dcs_intermediate", "collect")),
            Rule(<<myslice(\H30, \H39), myslice(\H3B, \H3B)>>, to("dcs_param", "param")),
            Rule(<<myslice(\H3A, \H3A)>>, to("dcs_ignore", None)),
            Rule(<<myslice(\H3C, \H3F)>>, to("dcs_param", "collect")),
            Rule(<<myslice(\H40, \H7E)>>, to("dcs_passthrough", None)),
            Rule(<<myslice(\H7F, \H7F)>>, do("ignore"))
        >>)
    @@ ("dcs_param" :> <<
            Rule(r_normal_c0, do("ignore")),
            Rule(<<myslice(\H20, \H2F)>>, to("dcs_intermediate", "collect")),
            Rule(<<myslice(\H30, \H39), myslice(\H3B, \H3B)>>, do("param")),
            Rule(<<myslice(\H3A, \H3A), myslice(\H3C, \H3F)>>, to("dcs_ignore", None)),
            Rule(<<myslice(\H40, \H7E)>>, to("dcs_passthrough", None)),
            Rule(<<myslice(\H7F, \H7F)>>, do("ignore"))
        >>)
    @@ ("dcs_intermediate" :> <<
            Rule(r_normal_c0, do("ignore")),
            Rule(<<myslice(\H20, \H2F)>>, do("collect")),
            Rule(<<myslice(\H30, \H3F)>>, to("dcs_ignore", None)),
            Rule(<<myslice(\H40, \H7E)>>, to("dcs_passthrough", None)),
            Rule(<<myslice(\H7F, \H7F)>>, do("ignore"))
        >>)
    @@ ("dcs_passthrough" :> <<
            Rule(r_normal_c0, do("put")),
            Rule(<<myslice(\H20, \H7E)>>, do("put")),
            Rule(<<myslice(\H7F, \H7F)>>, do("ignore"))
        >>)
    @@ ("dcs_ignore" :> dcs_ignore_rules)
    @@ ("osc_string" :> <<
            Rule(r_normal_c0, do("ignore")),
            Rule(<<myslice(\H20, \H7F)>>, do("osc_put")),
            Rule(<<myslice(\H07, \H07)>>, to("ground", "ignore"))
        >>)
    @@ ("other_string" :> <<
            Rule(r_normal_c0, do("ignore")),
            Rule(<<myslice(\H20, \H7F)>>, do("ignore"))
        >>)

\* on_entry without the clear of csi_entry
on_entry_nocsi ==
       ("escape" :> "clear")
    @@ ("dcs_entry" :> "clear")
    @@ ("dcs_passthrough" :> "hook")
    @@ ("osc_string" :> "osc_start")

\* on_entry with collect for clear on entering escape
on_entry_collect ==
       ("escape" :> "collect")
    @@ ("csi_entry" :> "clear")
    @@ ("dcs_entry" :> "clear")
    @@ ("dcs_passthrough" :> "hook")
    @@ ("osc_string" :> "osc_start")

on_entry ==
       ("escape" :> "clear")
    @@ ("csi_entry" :> "clear")
    @@ ("dcs_entry" :> "clear")
    @@ ("dcs_passthrough" :> "hook")
    @@ ("osc_string" :> "osc_start")

\* on_exit without the exit action of dcs_passthrough
on_exit_nounhook ==
       ("osc_string" :> "osc_end")

\* on_exit without the exit action of osc_string
on_exit_noosc ==
       ("dcs_passthrough" :> "unhook")

on_exit ==
       ("dcs_passthrough" :> "unhook")
    @@ ("osc_string" :> "osc_end")

\* ------------------------------------------------------------------------
\* Transition table builder
\* ------------------------------------------------------------------------

\* the unresolved entry every dense list is filled with before the rules
\* are stored
placeholder == Transition(None, None)

\* the dense lists are indexed 00-9F (A0-FF are wrapped to 20-7F)
DenseIndex == 0 .. \H9F

\* store_item keeping an entry that an earlier item has stored
store_item_first(l, rule) ==
    [i \in DOMAIN l |->
        IF /\ l[i] = Transition(None, None)
           /\ \E k \in DOMAIN rule.slices :
                 rule.slices[k].start <= i /\ i <= rule.slices[k].stop
        THEN rule.trans
        ELSE l[i]]

\* the inner loops of store_transitions for one dict item: l[i] = trans for
\* every i of every slice of the item
store_item(l, rule) ==
    [i \in DOMAIN l |->
        IF \E k \in DOMAIN rule.slices :
               rule.slices[k].start <= i /\ i <= rule.slices[k].stop
        THEN rule.trans
        ELSE l[i]]

RECURSIVE store_transitions(_, _)
\* the items of rt are stored in the dict's order, a later one over an
\* earlier one
store_transitions(l, rt) ==
    IF rt = <<>>
    THEN l
    ELSE store_transitions(store_item(l, Head(rt)), Tail(rt))

expand_table(state_table, anywhere) ==
    [state \in DOMAIN state_table |->
        store_transitions(
            store_transitions([i \in DenseIndex |-> placeholder],
                              state_table[state]),
            anywhere)]

state_transitions == expand_table(range_table, anywhere_table)

\* the (state, index) pairs expand_table reports as "missing transition"
missing_transitions(t) ==
    { si \in (DOMAIN t) \X DenseIndex : t[si[1]][si[2]] = placeholder }

\* ------------------------------------------------------------------------
\* Parameters: a list of cells; a cell is None, an int or a list of cells
\* ------------------------------------------------------------------------

ParamNone == [tag |-> "none", v |-> 0, items |-> <<>>]

ParamInt(n) == [tag |-> "int", v |-> n, items |-> <<>>]

ParamList(items) == [tag |-> "list", v |-> 0, items |-> items]

\* Python's "x or 0" on an Optional[int]
OrZero(cell) == IF cell.tag = "int" THEN cell.v ELSE 0

Last(s) == s[Len(s)]

SetLast(s, x) == [s EXCEPT ![Len(s)] = x]

\* __bool__ looking at the length only
__bool___len(params) == Len(params) # 0

\* Parameters.__bool__
__bool__(params) == Len(params) # 0 /\ params # << ParamNone >>

\* self[key]: a negative key counts from the end
Index(n, key) == IF key < 0 THEN key + n ELSE key

\* get with "val or default" in place of the test for None
get_falsy(params, key, default) ==
    IF Index(Len(params), key) \notin 0 .. Len(params) - 1
    THEN default
    ELSE LET val == params[Index(Len(params), key) + 1]
             first == IF val.tag = "list"
                      THEN IF val.items # <<>> THEN val.items[1] ELSE ParamNone
                      ELSE val
         IN  IF first.tag = "none" \/ first.v = 0 THEN default ELSE first.v

\* Parameters.get(key, default=default)
get(params, key, default) ==
    IF Index(Len(params), key) \notin 0 .. Len(params) - 1
    THEN default
    ELSE LET val == params[Index(Len(params), key) + 1]
             first == IF val.tag = "list"
                      THEN IF val.items # <<>> THEN val.items[1] ELSE ParamNone
                      ELSE val
         IN  IF first.tag = "none" THEN default ELSE first.v

\* ------------------------------------------------------------------------
\* Incremental UTF-8 decoding, one byte at a time
\* (codecs.getincrementaldecoder("utf-8"), errors="strict", final=False)
\* ------------------------------------------------------------------------

IsContinuation(b) == \H80 <= b /\ b <= \HBF

\* number of bytes of the sequence a lead byte starts
Utf8Need(lead) ==
    IF lead <= \HDF THEN 2 ELSE IF lead <= \HEF THEN 3 ELSE 4

\* the second byte's range depends on the lead byte (no overlong forms,
\* nothing above U+10FFFF); the surrogate range ED A0..BF is only refused
\* when the third byte arrives
SecondOk(lead, b) ==
    CASE lead = \HE0 -> \HA0 <= b /\ b <= \HBF
      [] lead = \HF0 -> \H90 <= b /\ b <= \HBF
      [] lead = \HF4 -> \H80 <= b /\ b <= \H8F
      [] OTHER       -> IsContinuation(b)

\* decoder.decode(<<b>>) with buf already buffered: "more" (output still
\* empty), "done" (one character is output) or "error" (UnicodeDecodeError)
Utf8Step(buf, b) ==
    LET n == Len(buf) + 1
        need == Utf8Need(buf[1])
        ok == IF n = 2
              THEN SecondOk(buf[1], b)
              ELSE /\ IsContinuation(b)
                   /\ ~(n = 3 /\ buf[1] = \HED /\ buf[2] >= \HA0)
    IN  IF ~ok THEN "error" ELSE IF n = need THEN "done" ELSE "more"

\* ord(output) of a complete well-formed sequence
Utf8Value(s) ==
    CASE Len(s) = 2 -> (s[1] - \HC0) * 64 + (s[2] - \H80)
      [] Len(s) = 3 -> (s[1] - \HE0) * 4096 + (s[2] - \H80) * 64 + (s[3] - \H80)
      [] OTHER      -> (s[1] - \HF0) * 262144 + (s[2] - \H80) * 4096
                        + (s[3] - \H80) * 64 + (s[4] - \H80)

\* try_unicode starts a decode on these bytes
IsStartByte(c) == \HC2 <= c /\ c <= \HF4

\* ErrorObject holding only what the decoder had buffered, without the byte
\* that made it fail
ErrorObject_buffered(buf, b) == buf

\* ex.object of the UnicodeDecodeError: the decoder's buffered bytes and the
\* byte it was just given; try_unicode yields each of them as a raw byte
ErrorObject(buf, b) == Append(buf, b)

\* ------------------------------------------------------------------------
\* State
\* ------------------------------------------------------------------------

VARIABLES
    state,            \* Parser.state
    intermediate,     \* Parser.intermediate, a sequence of code points
    parameters,       \* Parser.parameters
    esc_ended_string, \* Parser.esc_ended_string
    curr_raw,         \* Parser.curr_raw: bytes read since the last callback
    pc,               \* where the caller is: "idle" (no parse running),
                      \* "read" (try_unicode's outer loop, about to read),
                      \* "decode" (its inner loop, about to read), "replay"
                      \* (yielding the bytes of ex.object), "done" (parse
                      \* returned), "raised" (parse raised)
    dec,              \* the bytes the incremental decoder has buffered
    pending,          \* the bytes of ex.object not yet yielded
    stream,           \* "open", or how the stream ended: "eof" (a read
                      \* returned b""), "EIO" or "OSError" (a read raised)
    empty_reads,      \* reads that returned b"" in the current parse
    nread,            \* bytes read since construction or the last reset()
    inp,              \* history: the bytes the current parse has read
    yields,           \* history: the values try_unicode has yielded, each
                      \* with the table lookup parse made for it
    calls,            \* history: the callback invocations of the current
                      \* parse() or reset(), each with the parser it saw
    error,            \* the exception parse raised, "none" if none
    handler,          \* the callback object the Parser was constructed with
    log               \* the ScriptLog object, where there is one

vars ==
    << state, intermediate, parameters, esc_ended_string, curr_raw, pc, dec,
       pending, stream, empty_reads, nread, inp, yields, calls, error,
       handler, log >>

\* most bytes read between two resets
MaxLen == 4

\* reads of an exhausted stream that are counted
MaxEmptyReads == 2

\* the bytes a stream is made of
Bytes == { \H1B, \H20, \H31, \H5C, \H90, \H98, \H9B, \H9C, \H9D, \HC2, \HE2 }

\* ------------------------------------------------------------------------
\* Parser: the object as a record, so that one input value's chain of
\* process() calls composes
\* ------------------------------------------------------------------------

\* ------------------------------------------------------------------------
\* The callback objects: BaseHandler.last_action, and of what
\* DescriptiveHandler prints whether the quote of a run of print actions is
\* open
\* ------------------------------------------------------------------------

\* a callback that keeps nothing
Recorder ==
    [ kind |-> "recorder", last_action |-> None, open |-> FALSE,
      written |-> <<>> ]

\* DescriptiveHandler()
DescriptiveHandler ==
    [ kind |-> "descriptive", last_action |-> None, open |-> FALSE,
      written |-> <<>> ]

\* the extra newline between different action types, with the closing quote
\* of a run of print actions
Separator(h, action) ==
    /\ h.last_action # None
    /\ h.last_action # action
    /\ {h.last_action, action} # {"esc_dispatch", "csi_dispatch"}
    /\ << h.last_action, action >>
          \notin { << "hook", "put" >>, << "osc_start", "osc_put" >> }

\* DescriptiveHandler.handle: `written` is what this call has printed, with
\* "char" for the character print_raw writes and "description" for the text
\* of a describe_ function
handle(h, action, char) ==
    LET closing == Separator(h, action) /\ h.last_action = "print"
        opening == action = "print" /\ h.last_action # "print"
        sep == IF ~Separator(h, action) THEN <<>>
               ELSE IF closing THEN << "\"\n", "\n" >>
               ELSE << "\n" >>
        body == CASE action = "print" ->
                       (IF opening THEN << "> \"" >> ELSE <<>>) \o << "char" >>
                  [] action \in {"put", "osc_put"} -> << "char" >>
                  [] action = "hook" -> << "Start DCS hook:", "description" >>
                  [] action = "unhook" -> << "End DCS hook" >>
                  [] action = "osc_start" -> << "Start OSC handler:" >>
                  [] action = "osc_end" -> << "End OSC handler" >>
                  [] OTHER -> << "description" >>
    IN  [h EXCEPT !.written = sep \o body,
                  !.open = IF opening THEN TRUE
                           ELSE IF closing THEN FALSE
                           ELSE @]

\* BaseHandler.__call__
__call__(h, action, char) ==
    IF h.kind = "recorder" THEN h
    ELSE [(IF action # None
           THEN handle(h, action, char)
           ELSE [h EXCEPT !.written = <<>>])
          EXCEPT !.last_action = action]

Self ==
    [ state |-> state, intermediate |-> intermediate,
      parameters |-> parameters, esc_ended_string |-> esc_ended_string,
      curr_raw |-> curr_raw, calls |-> calls, error |-> error,
      handler |-> handler ]

\* self._cb(self, action, char): the call and what the parser view shows
Callback(p, action, char) ==
    [p EXCEPT !.calls =
        Append(@, [ action |-> action, char |-> char, raw |-> p.curr_raw,
                    state |-> p.state, intermediate |-> p.intermediate,
                    parameters |-> p.parameters,
                    esc_ended_string |-> p.esc_ended_string ]),
              !.handler = __call__(@, action, char)]

\* clear leaving an empty parameter list
clear_empty(p) ==
    [p EXCEPT !.intermediate = <<>>, !.parameters = <<>>]

clear(p) ==
    [p EXCEPT !.intermediate = <<>>, !.parameters = << ParamNone >>]

Raise(p, exception) == [p EXCEPT !.error = exception]

\* Param adding the digit without the shift by ten
Param_sum(p, char) ==
    IF char < 0 THEN Raise(p, "AssertionError")
    ELSE IF char = \H3B
    THEN [p EXCEPT !.parameters = Append(@, ParamNone)]
    ELSE IF Len(p.parameters) = 0
    THEN Raise(p, IF char = \H3A THEN "IndexError" ELSE "AssertionError")
    ELSE IF char = \H3A
    THEN IF Last(p.parameters).tag = "list"
         THEN [p EXCEPT !.parameters =
                  SetLast(@, ParamList(Append(Last(@).items, ParamNone)))]
         ELSE [p EXCEPT !.parameters =
                  SetLast(@, ParamList(<< Last(@), ParamNone >>))]
    ELSE LET inner == Last(p.parameters).tag = "list"
             lst == IF inner THEN Last(p.parameters).items ELSE p.parameters
             digit == char - \H30
         IN  IF Len(lst) = 0 THEN Raise(p, "IndexError")
             ELSE IF Last(lst).tag = "list" THEN Raise(p, "AssertionError")
             ELSE LET new == SetLast(lst, ParamInt(OrZero(Last(lst)) + digit))
                  IN  IF inner
                      THEN [p EXCEPT !.parameters = SetLast(@, ParamList(new))]
                      ELSE [p EXCEPT !.parameters = new]

\* Param taking `:` for `;`
Param_flat(p, char) ==
    IF char < 0 THEN Raise(p, "AssertionError")
    ELSE IF char = \H3B \/ char = \H3A
    THEN [p EXCEPT !.parameters = Append(@, ParamNone)]
    ELSE IF Len(p.parameters) = 0
    THEN Raise(p, IF char = \H3A THEN "IndexError" ELSE "AssertionError")
    ELSE IF char = \H3A
    THEN IF Last(p.parameters).tag = "list"
         THEN [p EXCEPT !.parameters =
                  SetLast(@, ParamList(Append(Last(@).items, ParamNone)))]
         ELSE [p EXCEPT !.parameters =
                  SetLast(@, ParamList(<< Last(@), ParamNone >>))]
    ELSE LET inner == Last(p.parameters).tag = "list"
             lst == IF inner THEN Last(p.parameters).items ELSE p.parameters
             digit == char - \H30
         IN  IF Len(lst) = 0 THEN Raise(p, "IndexError")
             ELSE IF Last(lst).tag = "list" THEN Raise(p, "AssertionError")
             ELSE LET new == SetLast(lst, ParamInt(OrZero(Last(lst)) * 10 + digit))
                  IN  IF inner
                      THEN [p EXCEPT !.parameters = SetLast(@, ParamList(new))]
                      ELSE [p EXCEPT !.parameters = new]

\* Param wrapping the last cell at every `:`
Param_nest(p, char) ==
    IF char < 0 THEN Raise(p, "AssertionError")
    ELSE IF char = \H3B
    THEN [p EXCEPT !.parameters = Append(@, ParamNone)]
    ELSE IF Len(p.parameters) = 0
    THEN Raise(p, IF char = \H3A THEN "IndexError" ELSE "AssertionError")
    ELSE IF char = \H3A
    THEN [p EXCEPT !.parameters =
             SetLast(@, ParamList(<< Last(@), ParamNone >>))]
    ELSE LET inner == Last(p.parameters).tag = "list"
             lst == IF inner THEN Last(p.parameters).items ELSE p.parameters
             digit == char - \H30
         IN  IF Len(lst) = 0 THEN Raise(p, "IndexError")
             ELSE IF Last(lst).tag = "list" THEN Raise(p, "AssertionError")
             ELSE LET new == SetLast(lst, ParamInt(OrZero(Last(lst)) * 10 + digit))
                  IN  IF inner
                      THEN [p EXCEPT !.parameters = SetLast(@, ParamList(new))]
                      ELSE [p EXCEPT !.parameters = new]

\* the param branch of process
Param(p, char) ==
    IF char < 0 THEN Raise(p, "AssertionError")
    ELSE IF char = \H3B
    THEN [p EXCEPT !.parameters = Append(@, ParamNone)]
    ELSE IF Len(p.parameters) = 0
    THEN Raise(p, IF char = \H3A THEN "IndexError" ELSE "AssertionError")
    ELSE IF char = \H3A
    THEN IF Last(p.parameters).tag = "list"
         THEN [p EXCEPT !.parameters =
                  SetLast(@, ParamList(Append(Last(@).items, ParamNone)))]
         ELSE [p EXCEPT !.parameters =
                  SetLast(@, ParamList(<< Last(@), ParamNone >>))]
    ELSE LET inner == Last(p.parameters).tag = "list"
             lst == IF inner THEN Last(p.parameters).items ELSE p.parameters
             digit == char - \H30
         IN  IF Len(lst) = 0 THEN Raise(p, "IndexError")
             ELSE IF Last(lst).tag = "list" THEN Raise(p, "AssertionError")
             ELSE LET new == SetLast(lst, ParamInt(OrZero(Last(lst)) * 10 + digit))
                  IN  IF inner
                      THEN [p EXCEPT !.parameters = SetLast(@, ParamList(new))]
                      ELSE [p EXCEPT !.parameters = new]

\* Dispatch also clearing the raw bytes when it swallows the `\`
Dispatch_clears(p, action, char) ==
    LET q == [p EXCEPT !.esc_ended_string = FALSE]
    IN  [(IF p.esc_ended_string /\ action = "esc_dispatch" /\ char = \H5C
          THEN q
          ELSE Callback(q, action, char)) EXCEPT !.curr_raw = <<>>]

\* the last branch of process: the actions handed to the callback
Dispatch(p, action, char) ==
    LET q == [p EXCEPT !.esc_ended_string = FALSE]
    IN  IF p.esc_ended_string /\ action = "esc_dispatch" /\ char = \H5C
        THEN q
        ELSE [Callback(q, action, char) EXCEPT !.curr_raw = <<>>]

\* process also reporting collect to the callback
process_collectcb(p, action, char) ==
    IF p.error # "none" THEN p
    ELSE CASE action = "ignore"  -> p
           [] action = "clear"   -> clear(p)
           [] action = "collect" ->
                IF char < 0 THEN Raise(p, "ValueError")
                ELSE Dispatch([p EXCEPT !.intermediate = Append(@, char)],
                              action, char)
           [] action = "param"   -> Param(p, char)
           [] OTHER              -> Dispatch(p, action, char)

\* nothing runs once an exception is on its way out of parse
process(p, action, char) ==
    IF p.error # "none" THEN p
    ELSE CASE action = "ignore"  -> p
           [] action = "clear"   -> clear(p)
           [] action = "collect" ->
                IF char < 0 THEN Raise(p, "ValueError")
                ELSE [p EXCEPT !.intermediate = Append(@, char)]
           [] action = "param"   -> Param(p, char)
           [] OTHER              -> Dispatch(p, action, char)

\* TableIndex folding A0-FF onto 00-5F
TableIndex_strip(char) ==
    IF \HA0 <= char /\ char <= \HFF THEN char - \HA0 ELSE char

\* the index parse uses for a raw byte
TableIndex(char) ==
    IF \HA0 <= char /\ char <= \HFF THEN char % 128 ELSE char

\* LookupIndex classifying a decoded C1 code point as the control byte
LookupIndex_scalar(c) ==
    IF c < 0
    THEN IF -c <= \H9F THEN -c ELSE \H7E
    ELSE TableIndex(c)

\* the index parse uses for a yielded value: negative values are decoded
\* characters
LookupIndex(c) == IF c < 0 THEN \H7E ELSE TableIndex(c)

\* new_state, action of parse for a yielded value
Lookup(st, c) == state_transitions[st][LookupIndex(c)]

\* CharOf handing on the code point the lookup was made with
CharOf_index(c) == IF c < 0 THEN \H7E ELSE c

\* the character parse hands to process for a yielded value
CharOf(c) == IF c < 0 THEN -c ELSE c

\* Exit never setting the flag
Exit_noflag(p, char) ==
    IF p.state \in DOMAIN on_exit
    THEN process(p, on_exit[p.state], -1)
    ELSE p

\* Exit handing the character on to the exit action
Exit_char(p, char) ==
    IF p.state \in DOMAIN on_exit
    THEN LET q == process(p, on_exit[p.state], char)
         IN  IF /\ q.error = "none"
                /\ p.state \in {"osc_string", "dcs_passthrough"}
                /\ char = \H1B
             THEN [q EXCEPT !.esc_ended_string = TRUE]
             ELSE q
    ELSE p

\* the exit part of a transition
Exit(p, char) ==
    IF p.state \in DOMAIN on_exit
    THEN LET q == process(p, on_exit[p.state], -1)
         IN  IF /\ q.error = "none"
                /\ p.state \in {"osc_string", "dcs_passthrough"}
                /\ char = \H1B
             THEN [q EXCEPT !.esc_ended_string = TRUE]
             ELSE q
    ELSE p

\* Feed running the entry action of the target before anything else
Feed_entryfirst(p, c) ==
    LET tr == Lookup(p.state, c)
        char == CharOf(c)
    IN  IF tr.target # None
        THEN LET p1 == IF tr.target \in DOMAIN on_entry
                       THEN process(p, on_entry[tr.target], -1)
                       ELSE p
                 p2 == Exit(p1, char)
                 p3 == IF tr.action # None
                       THEN process(p2, tr.action, char)
                       ELSE p2
             IN  IF p3.error = "none"
                 THEN [p3 EXCEPT !.state = tr.target]
                 ELSE p3
        ELSE IF tr.action # None
        THEN process(p, tr.action, char)
        ELSE p

\* the body of parse's loop for one yielded value
Feed(p, c) ==
    LET tr == Lookup(p.state, c)
        char == CharOf(c)
    IN  IF tr.target # None
        THEN LET p1 == Exit(p, char)
                 p2 == IF tr.action # None
                       THEN process(p1, tr.action, char)
                       ELSE p1
                 p3 == IF tr.target \in DOMAIN on_entry
                       THEN process(p2, on_entry[tr.target], -1)
                       ELSE p2
             IN  IF p3.error = "none"
                 THEN [p3 EXCEPT !.state = tr.target]
                 ELSE p3
        ELSE IF tr.action # None
        THEN process(p, tr.action, char)
        ELSE p

\* Finish leaving the raw bytes in place
Finish_noclear(p) == Callback(p, None, -1)

\* Finish clearing the way reset() does
Finish_clears(p) == clear([Callback(p, None, -1) EXCEPT !.curr_raw = <<>>])

\* Finish running the exit action of the state the stream ended in
Finish_exit(p) == [Callback(Exit(p, -1), None, -1) EXCEPT !.curr_raw = <<>>]

\* after the loop: self._cb(self, None, -1); self.curr_raw.clear()
Finish(p) == [Callback(p, None, -1) EXCEPT !.curr_raw = <<>>]

\* reset() clearing before it calls the callback
ResetParser_clearfirst(p) ==
    LET q == clear([p EXCEPT !.state = "ground", !.esc_ended_string = FALSE,
                             !.curr_raw = <<>>])
    IN  Callback(q, None, -1)

\* reset() without its call of clear()
ResetParser_noclear(p) ==
    LET q == [p EXCEPT !.state = "ground", !.esc_ended_string = FALSE]
    IN  [Callback(q, None, -1) EXCEPT !.curr_raw = <<>>]

\* reset() as a whole
ResetParser(p) ==
    LET q == [p EXCEPT !.state = "ground", !.esc_ended_string = FALSE]
    IN  clear([Callback(q, None, -1) EXCEPT !.curr_raw = <<>>])

\* what a value and its lookup leave in the history
Yielded(st, c) ==
    [ v |-> c, state |-> st,
      index |-> LookupIndex(c),
      trans |-> Lookup(st, c) ]

\* ------------------------------------------------------------------------
\* Operations
\* ------------------------------------------------------------------------

Commit(p) ==
    /\ state' = p.state
    /\ intermediate' = p.intermediate
    /\ parameters' = p.parameters
    /\ esc_ended_string' = p.esc_ended_string
    /\ curr_raw' = p.curr_raw
    /\ calls' = p.calls
    /\ error' = p.error
    /\ handler' = p.handler

\* ------------------------------------------------------------------------
\* ScriptLog: the timing file is a sequence of lines, the output file a
\* sequence of bytes whose first line is script's header
\* ------------------------------------------------------------------------

\* most lines of a timing file
MaxLines == 3

\* most bytes of an output file
MaxFile == 4

\* longest buffer handed to readinto
MaxBuf == 2

\* the lines of a timing file: the OUTPUT_LOG header, output and input
\* entries with their sizes, a signal entry
TimingLines ==
    { [ type |-> "H", key |-> "OUTPUT_LOG", size |-> 0 ],
      [ type |-> "O", key |-> "", size |-> 1 ],
      [ type |-> "O", key |-> "", size |-> 2 ],
      [ type |-> "I", key |-> "", size |-> 1 ],
      [ type |-> "S", key |-> "", size |-> 0 ] }

\* the bytes of an output file
FileBytes == { \H0A, \H41 }

\* there is no ScriptLog
NoLog ==
    [ output_path |-> FALSE, entries |-> <<>>, _closed |-> FALSE,
      _output_stream |-> None, _remaining_bytes |-> 0, file |-> <<>>,
      buffer |-> <<>>, returned |-> -1, copied |-> 0, delivered |-> 0,
      exhausted |-> FALSE, error |-> "none" ]

\* the loop of _read_headers over the lines of the timing file
RECURSIVE _read_headers(_, _)
_read_headers(l, lines) ==
    IF lines = <<>> THEN l
    ELSE LET line == Head(lines)
             m == CASE line.type = "H" ->
                         IF line.key = "OUTPUT_LOG"
                         THEN [l EXCEPT !.output_path = TRUE]
                         ELSE l
                    [] line.type = "O" ->
                         [l EXCEPT !.entries = Append(@, line),
                                   !._remaining_bytes = @ + line.size]
                    [] line.type = "I" ->
                         [l EXCEPT !.entries = Append(@, line)]
                    [] OTHER -> l
         IN  _read_headers(m, Tail(lines))

\* ScriptLog(timing_path), with the output file the log names
ScriptLog(lines, file) ==
    [_read_headers(NoLog, lines) EXCEPT !.file = file]

\* readline() on the output file: what is left after its first line
RECURSIVE readline(_)
readline(f) ==
    IF f = <<>> THEN <<>>
    ELSE IF Head(f) = \H0A THEN Tail(f)
    ELSE readline(Tail(f))

\* the smaller of two numbers
min(a, b) == IF a < b THEN a ELSE b

\* ScriptLog.readinto(buffer): `returned` is its result, `copied` the number
\* of bytes it has put into the buffer, `delivered` their total, `exhausted`
\* whether nothing was left to read when it was called
readinto(l, buffer) ==
    IF l._closed THEN [l EXCEPT !.error = "ValueError"]
    ELSE IF l._output_stream = None /\ ~l.output_path
    THEN [l EXCEPT !.error = "ValueError"]
    ELSE LET f == IF l._output_stream = None THEN readline(l.file)
                  ELSE l.file
             n_bytes == min(Len(buffer), l._remaining_bytes)
             read_bytes == SubSeq(f, 1, min(n_bytes, Len(f)))
         IN  [l EXCEPT
                !._output_stream = "open",
                !.file = SubSeq(f, Len(read_bytes) + 1, Len(f)),
                !.buffer = read_bytes
                    \o SubSeq(buffer, Len(read_bytes) + 1, Len(buffer)),
                !._remaining_bytes = @ - Len(read_bytes),
                !.returned = n_bytes,
                !.copied = Len(read_bytes),
                !.delivered = @ + Len(read_bytes),
                !.exhausted = l._remaining_bytes = 0 \/ f = <<>>]

\* ScriptLog.close()
close(l) ==
    IF l._closed THEN l
    ELSE [l EXCEPT !._closed = TRUE,
                   !._output_stream = IF @ = None THEN None ELSE "closed"]

\* Parser.__init__: the parser and a caller that has not called it yet
NewParser ==
    /\ state = "ground"
    /\ intermediate = <<>>
    /\ parameters = << ParamNone >>
    /\ esc_ended_string = FALSE
    /\ curr_raw = <<>>
    /\ pc = "idle"
    /\ dec = <<>>
    /\ pending = <<>>
    /\ stream = "open"
    /\ empty_reads = 0
    /\ nread = 0
    /\ inp = <<>>
    /\ yields = <<>>
    /\ calls = <<>>
    /\ error = "none"

\* Parser(callback), with a callback that keeps nothing
Init ==
    /\ NewParser
    /\ handler = Recorder
    /\ log = NoLog

\* reset(), called while no parse is running
Reset ==
    /\ pc \in {"idle", "done", "raised"}
    /\ Commit(ResetParser([Self EXCEPT !.calls = <<>>, !.error = "none"]))
    /\ pc' = "idle"
    /\ dec' = <<>>
    /\ pending' = <<>>
    /\ stream' = "open"
    /\ empty_reads' = 0
    /\ nread' = 0
    /\ inp' = <<>>
    /\ yields' = <<>>
    /\ UNCHANGED log

\* parse(data) is called with a fresh stream; after an exception the caller
\* resets the parser first
StartParse ==
    /\ pc \in {"idle", "done"}
    /\ pc = "done" => nread < MaxLen
    /\ pc' = "read"
    /\ stream' = "open"
    /\ empty_reads' = 0
    /\ inp' = <<>>
    /\ yields' = <<>>
    /\ calls' = <<>>
    /\ UNCHANGED << state, intermediate, parameters, esc_ended_string,
                    curr_raw, dec, pending, nread, error, handler, log >>

\* one yielded value goes through the body of parse's loop
Consume(p, c, next) ==
    LET q == Feed(p, c)
    IN  /\ Commit(q)
        /\ yields' = Append(yields, Yielded(p.state, c))
        /\ pc' = IF q.error = "none" THEN next ELSE "raised"

\* the outer loop's read returns the byte b: a start byte opens a decode,
\* any other byte is yielded as it is
ReadOne(b) ==
    /\ inp' = Append(inp, b)
    /\ nread' = nread + 1
    /\ IF IsStartByte(b)
       THEN /\ curr_raw' = Append(curr_raw, b)
            /\ dec' = << b >>
            /\ pc' = "decode"
            /\ UNCHANGED << state, intermediate, parameters,
                            esc_ended_string, yields, calls, error,
                            handler >>
       ELSE /\ Consume([Self EXCEPT !.curr_raw = Append(@, b)], b, "read")
            /\ dec' = dec
    /\ UNCHANGED << pending, stream, empty_reads, log >>

\* the outer loop reads a byte of the stream
ReadByte ==
    /\ pc = "read"
    /\ stream = "open"
    /\ nread < MaxLen
    /\ \E b \in Bytes : ReadOne(b)

\* the outer loop's read returns b"" or raises EIO: the loop ends, parse
\* makes its last callback and returns
ReadEnd ==
    /\ pc = "read"
    /\ stream = "open"
    /\ \E how \in {"eof", "EIO"} :
        /\ stream' = how
        /\ empty_reads' = IF how = "eof" THEN 1 ELSE 0
    /\ Commit(Finish(Self))
    /\ pc' = "done"
    /\ UNCHANGED << dec, pending, nread, inp, yields, log >>

\* ReadFail taking every OSError for the end of the stream
ReadFail_break ==
    /\ pc = "read"
    /\ stream = "open"
    /\ stream' = "OSError"
    /\ Commit(Finish(Self))
    /\ pc' = "done"
    /\ UNCHANGED << dec, pending, empty_reads, nread, inp, yields, log >>

\* the outer loop's read raises another OSError: it leaves parse
ReadFail ==
    /\ pc = "read"
    /\ stream = "open"
    /\ stream' = "OSError"
    /\ error' = "OSError"
    /\ pc' = "raised"
    /\ UNCHANGED << state, intermediate, parameters, esc_ended_string,
                    curr_raw, dec, pending, empty_reads, nread, inp, yields,
                    calls, handler, log >>

\* the inner loop reads a byte and gives it to the decoder
DecodeByte ==
    /\ pc = "decode"
    /\ stream = "open"
    /\ nread < MaxLen
    /\ \E b \in Bytes :
        LET p == [Self EXCEPT !.curr_raw = Append(@, b)]
            step == Utf8Step(dec, b)
        IN  /\ inp' = Append(inp, b)
            /\ nread' = nread + 1
            /\ CASE step = "more" ->
                      /\ Commit(p)
                      /\ dec' = Append(dec, b)
                      /\ pc' = "decode"
                      /\ UNCHANGED << pending, yields >>
                 [] step = "done" ->
                      /\ Consume(p, -Utf8Value(Append(dec, b)), "read")
                      /\ dec' = <<>>
                      /\ UNCHANGED pending
                 [] OTHER ->
                      /\ Commit(p)
                      /\ pending' = ErrorObject(dec, b)
                      /\ dec' = <<>>
                      /\ pc' = "replay"
                      /\ UNCHANGED yields
    /\ UNCHANGED << stream, empty_reads, log >>

\* the inner loop's read returns b"": nothing is appended, the decoder's
\* output stays empty and the loop goes round again
DecodeEmpty ==
    /\ pc = "decode"
    /\ stream \in {"open", "eof"}
    /\ stream' = "eof"
    /\ empty_reads' =
          IF empty_reads < MaxEmptyReads THEN empty_reads + 1 ELSE empty_reads
    /\ UNCHANGED << state, intermediate, parameters, esc_ended_string,
                    curr_raw, pc, dec, pending, nread, inp, yields, calls,
                    error, handler, log >>

\* the inner loop's read raises an OSError (EIO or another): no handler
\* around that read catches it, so it leaves parse
DecodeFail ==
    /\ pc = "decode"
    /\ stream = "open"
    /\ \E how \in {"EIO", "OSError"} :
        /\ stream' = how
        /\ error' = how
    /\ pc' = "raised"
    /\ UNCHANGED << state, intermediate, parameters, esc_ended_string,
                    curr_raw, dec, pending, empty_reads, nread, inp, yields,
                    calls, handler, log >>

\* after a UnicodeDecodeError: the next byte of ex.object is yielded
Replay ==
    /\ pc = "replay"
    /\ Consume(Self, Head(pending),
               IF Len(pending) = 1 THEN "read" ELSE "replay")
    /\ pending' = Tail(pending)
    /\ UNCHANGED << dec, stream, empty_reads, nread, inp, log >>

\* the steps of a running parse
ParseStep ==
    \/ ReadByte
    \/ ReadEnd
    \/ ReadFail
    \/ DecodeByte
    \/ DecodeEmpty
    \/ DecodeFail
    \/ Replay

Next ==
    \/ Reset
    \/ StartParse
    \/ ParseStep

Spec == Init /\ [][Next]_vars

\* ------------------------------------------------------------------------
\* Streams of control sequence parameters: the same parser and the same
\* caller, reading streams made of CSI, digits, `:`, `;` and a final byte
\* ------------------------------------------------------------------------

\* most bytes read between two resets of such a stream
MaxCsiLen == 5

\* ESC, CSI, `0`, `1`, `:`, `;`, `m`, and `1` with the eighth bit set
CsiBytes == { \H1B, \H9B, \H30, \H31, \H3A, \H3B, \H6D, \HB1 }

CsiRead ==
    /\ pc = "read"
    /\ stream = "open"
    /\ nread < MaxCsiLen
    /\ \E b \in CsiBytes : ReadOne(b)

CsiNext ==
    \/ Reset
    \/ StartParse
    \/ CsiRead
    \/ ReadEnd
    \/ ReadFail

CsiSpec == Init /\ [][CsiNext]_vars

\* ------------------------------------------------------------------------
\* Streams of malformed sequences: the same parser and the same caller,
\* reading streams that reach csi_ignore and dcs_ignore and leave them
\* ------------------------------------------------------------------------

\* most bytes read between two resets of such a stream
MaxCtlLen == 4

\* LF, ESC, space, `1`, `<`, `\`, DCS, CSI, ST
CtlBytes == { \H0A, \H1B, \H20, \H31, \H3C, \H5C, \H90, \H9B, \H9C }

CtlRead ==
    /\ pc = "read"
    /\ stream = "open"
    /\ nread < MaxCtlLen
    /\ \E b \in CtlBytes : ReadOne(b)

CtlNext ==
    \/ Reset
    \/ StartParse
    \/ CtlRead
    \/ ReadEnd
    \/ ReadFail

CtlSpec == Init /\ [][CtlNext]_vars

\* ------------------------------------------------------------------------
\* Scripted streams: a Parser is constructed and parse is called once on a
\* stream that holds one of a few fixed byte sequences
\* ------------------------------------------------------------------------

\* longest body of a device control string
MaxBody == 2

\* final bytes of a device control string's header
DcsFinals == { \H40, \H71, \H7E }

\* bytes of a device control string's body
BodyBytes == { \H0D, \H20, \H71 }

\* the sequences over S of length n or less
SeqsUpTo(S, n) == UNION { [1 .. k -> S] : k \in 0 .. n }

\* ESC [ 3 1 m
ScenarioA == << \H1B, \H5B, \H33, \H31, \H6D >>

\* ESC [ 3 8 : 2 : 2 5 5 : 0 : 0 m
ScenarioB ==
    << \H1B, \H5B, \H33, \H38, \H3A, \H32, \H3A, \H32, \H35, \H35,
       \H3A, \H30, \H3A, \H30, \H6D >>

\* ESC ] 0 ; t i t l e BEL
ScenarioC ==
    << \H1B, \H5D, \H30, \H3B, \H74, \H69, \H74, \H6C, \H65, \H07 >>

\* ESC P <final byte> <body> ESC \
ScenarioD(final, body) ==
    << \H1B, \H50, final >> \o body \o << \H1B, \H5C >>

Scripts ==
    { ScenarioA, ScenarioB, ScenarioC }
        \cup { ScenarioD(f, b) : f \in DcsFinals,
                                  b \in SeqsUpTo(BodyBytes, MaxBody) }

\* parse(data) on a freshly constructed Parser
ScriptStart ==
    /\ pc = "idle"
    /\ calls = <<>>
    /\ StartParse

\* the stream hands over the next byte of its sequence
ScriptRead ==
    /\ pc = "read"
    /\ stream = "open"
    /\ \E s \in Scripts :
        /\ Len(inp) < Len(s)
        /\ SubSeq(s, 1, Len(inp)) = inp
        /\ ReadOne(s[Len(inp) + 1])

\* the stream is exhausted
ScriptEnd ==
    /\ inp \in Scripts
    /\ ReadEnd

ScenarioNext ==
    \/ ScriptStart
    \/ ScriptRead
    \/ ScriptEnd

ScenarioSpec == Init /\ [][ScenarioNext]_vars

\* ------------------------------------------------------------------------
\* A Parser whose callback is a DescriptiveHandler
\* ------------------------------------------------------------------------

\* most bytes read between two resets
MaxShownLen == 3

\* the bytes of a stream: BEL, LF, ESC, `A`, `[`, DCS, OSC, and the 8-bit
\* form of SP
ShownBytes == { \H07, \H0A, \H1B, \H41, \H5B, \H90, \H9D, \HA0 }

\* Parser(DescriptiveHandler())
ShownInit ==
    /\ NewParser
    /\ handler = DescriptiveHandler
    /\ log = NoLog

ShownRead ==
    /\ pc = "read"
    /\ stream = "open"
    /\ nread < MaxShownLen
    /\ \E b \in ShownBytes : ReadOne(b)

ShownNext ==
    \/ Reset
    \/ StartParse
    \/ ShownRead
    \/ ReadEnd

ShownSpec == ShownInit /\ [][ShownNext]_vars

\* ------------------------------------------------------------------------
\* A ScriptLog and a caller that reads from it
\* ------------------------------------------------------------------------

\* ScriptLog(timing_path) for a timing file and an output file
LogInit ==
    /\ NewParser
    /\ handler = Recorder
    /\ \E lines \in SeqsUpTo(TimingLines, MaxLines),
          file \in SeqsUpTo(FileBytes, MaxFile) :
            log = ScriptLog(lines, file)

\* readinto(buffer) with a zeroed buffer, as RawIOBase.read(n) calls it
LogReadinto ==
    /\ log.error = "none"
    /\ \E n \in 1 .. MaxBuf : log' = readinto(log, [ i \in 1 .. n |-> 0 ])
    /\ UNCHANGED << state, intermediate, parameters, esc_ended_string,
                    curr_raw, pc, dec, pending, stream, empty_reads, nread,
                    inp, yields, calls, error, handler >>

\* close()
LogClose ==
    /\ log.error = "none"
    /\ ~log._closed
    /\ log' = close(log)
    /\ UNCHANGED << state, intermediate, parameters, esc_ended_string,
                    curr_raw, pc, dec, pending, stream, empty_reads, nread,
                    inp, yields, calls, error, handler >>

LogNext ==
    \/ LogReadinto
    \/ LogClose

LogSpec == LogInit /\ [][LogNext]_vars

\* ------------------------------------------------------------------------
\* Properties
\* ------------------------------------------------------------------------

Running == pc \in {"read", "decode", "replay"}

\* the actions process hands to the callback
HandlerActions ==
    Action \ {"ignore", "clear", "collect", "param"}

RECURSIVE ConcatRaw(_)
\* the raw spans the callback saw, one after the other
ConcatRaw(cs) ==
    IF cs = <<>> THEN <<>> ELSE Head(cs).raw \o ConcatRaw(Tail(cs))

IsSentinel(call) == call.action = None /\ call.char = -1

\* the parser as Parser(callback) leaves it: the table is the same in every
\* state, so what is true of the whole table is looked at here
Constructed == pc = "idle" /\ calls = <<>>

TableTotal ==
    /\ DOMAIN state_transitions = State
    /\ missing_transitions(state_transitions) = {}
    /\ \A s \in State :
        /\ DOMAIN state_transitions[s] = DenseIndex
        /\ \A i \in DenseIndex :
            LET t == state_transitions[s][i]
            IN  /\ t # placeholder
                /\ t.target # None \/ t.action # None
                /\ t.target \in State \cup {None}
                /\ t.action \in Action \cup {None}

\* C1 (Totality): every entry of the dense table, for each of the 14 states
\* and each code point 00-9F, is a defined transition (a target, an action
\* or both), never the placeholder; so is every lookup parse makes.
Totality ==
    /\ Constructed => TableTotal
    /\ \A i \in DOMAIN yields :
        /\ yields[i].index \in DenseIndex
        /\ yields[i].trans # placeholder

\* C1 witness: parse has looked up a C1 control and an ordinary byte
Totality_witness ==
    /\ \E i \in DOMAIN yields : yields[i].index = \H9B
    /\ \E i \in DOMAIN yields : yields[i].index = \H31

TableFolded ==
    \A s \in State, k \in 0 .. \H5F :
        /\ LookupIndex(\HA0 + k) = \H20 + k
        /\ Lookup(s, \HA0 + k) = state_transitions[s][\H20 + k]

\* C2 (C1 equivalence): for a raw byte A0+k parse uses the entry of the
\* current state for 20+k, and a raw byte >= A0 is never itself the index.
C1Equivalence ==
    /\ Constructed => TableFolded
    /\ \A i \in DOMAIN yields :
        LET y == yields[i]
        IN  /\ y.index \in DenseIndex
            /\ y.v >= \HA0 =>
                /\ y.index = \H20 + (y.v - \HA0)
                /\ y.trans = state_transitions[y.state][\H20 + (y.v - \HA0)]

\* C2 witness: the raw byte C2 was looked up as 42 in escape and dispatched
C1Equivalence_witness ==
    \E i \in DOMAIN yields :
        /\ yields[i].v = \HC2
        /\ yields[i].state = "escape"
        /\ yields[i].trans = to("ground", "esc_dispatch")

\* C3 (Round trip): when parse has returned, the raw spans seen by the
\* callback at its invocations (the last one included), concatenated in call
\* order, are the input; while it runs they and the bytes not yet shown are.
RoundTrip ==
    /\ pc = "done" => ConcatRaw(calls) = inp
    /\ Running => ConcatRaw(calls) \o curr_raw = inp

\* C3 witness: a parse of OSC ESC `\` has returned; the swallowed `\` was
\* shown to the last callback
RoundTrip_witness ==
    /\ pc = "done"
    /\ inp = << \H9D, \H1B, \H5C >>
    /\ Last(calls).raw = << \H5C >>

\* C4 (Reset idempotence): reset() leaves ground, no intermediates, one
\* unset parameter, and makes one callback, with None and -1; on a parser
\* just reset it changes nothing.
ResetIdempotence ==
    [][pc' = "idle" =>
        /\ state' = "ground"
        /\ intermediate' = <<>>
        /\ parameters' = << ParamNone >>
        /\ esc_ended_string' = FALSE
        /\ Len(calls') = 1
        /\ IsSentinel(calls'[1])
        /\ pc = "idle" =>
              UNCHANGED << state, intermediate, parameters,
                           esc_ended_string, curr_raw >>]_vars

\* C4 witness: reset() was called with an intermediate, a parameter and raw
\* bytes pending, which its callback saw
ResetIdempotence_witness ==
    /\ pc = "idle"
    /\ state = "ground" /\ intermediate = <<>> /\ parameters = << ParamNone >>
    /\ Len(calls) = 1
    /\ calls[1].intermediate # <<>>
    /\ calls[1].parameters # << ParamNone >>
    /\ calls[1].raw # <<>>

\* C5 (Termination): a parse of a finite stream comes to an end. Once the
\* stream is exhausted every read returns b"" and changes nothing, so a
\* parse that ends does so at the first such read: it never reads an
\* exhausted stream a second time. The values yielded are no more than the
\* bytes read.
Termination ==
    /\ empty_reads <= 1
    /\ Len(yields) <= Len(inp)

\* C6 (End-of-stream sentinel): a parse that reached the end of its stream
\* made exactly one callback with None and -1, its last one, and left the
\* raw bytes empty; no callback made while values are processed has None.
EndOfStreamSentinel ==
    /\ pc = "done" =>
        /\ calls # <<>>
        /\ IsSentinel(Last(calls))
        /\ \A i \in 1 .. Len(calls) - 1 : calls[i].action # None
        /\ curr_raw = <<>>
    /\ Running => \A i \in DOMAIN calls : calls[i].action \in HandlerActions

\* C6 witness: the stream ended with bytes read since the last callback
EndOfStreamSentinel_witness ==
    /\ pc = "done"
    /\ Len(calls) >= 2
    /\ Last(calls).raw # <<>>

\* C7 as stated: after parse returns, the intermediates are empty and the
\* parameters are one unset cell
EndOfStreamClears ==
    pc = "done" =>
        /\ intermediate = <<>>
        /\ parameters = << ParamNone >>
        /\ curr_raw = <<>>

\* C7 (amended): the end of the stream empties the raw bytes and leaves the
\* state, the intermediates and the parameters as the stream left them.
EndOfStreamKeeps ==
    [][pc' = "done" =>
        /\ curr_raw' = <<>>
        /\ UNCHANGED << state, intermediate, parameters,
                        esc_ended_string >>]_vars

\* C7 witness: parse returned with an intermediate and a parameter pending
EndOfStreamKeeps_witness ==
    /\ pc = "done"
    /\ intermediate # <<>>
    /\ parameters # << ParamNone >>
    /\ curr_raw = <<>>

\* C8 (Malformed UTF-8 is never dropped): when a decode is abandoned, the
\* bytes read for it, the offending one included, are all queued in input
\* order; each is then yielded once as a raw byte with a lookup of its own,
\* nothing is yielded as a decoded character and nothing is raised.
NeverDropped ==
    [][/\ pc = "decode" /\ pc' = "replay" =>
            /\ pending' = SubSeq(inp', Len(inp') - Len(dec), Len(inp'))
            /\ Len(pending') = Len(dec) + 1
            /\ yields' = yields
            /\ error' = "none"
       /\ pc = "replay" =>
            /\ pc' = IF Len(pending) = 1 THEN "read" ELSE "replay"
            /\ pending' = Tail(pending)
            /\ inp' = inp
            /\ error' = "none"
            /\ Len(yields') = Len(yields) + 1
            /\ Last(yields').v = Head(pending)
            /\ Last(yields').state = state
            /\ Last(yields').trans =
                  state_transitions[state][
                      IF Head(pending) >= \HA0
                      THEN Head(pending) - \H80
                      ELSE Head(pending)]]_vars

\* C8 witness: E2 9B ESC was read; the three bytes were yielded raw, the
\* last one taking the parser to escape
NeverDropped_witness ==
    /\ pc = "read"
    /\ inp = << \HE2, \H9B, \H1B >>
    /\ Len(yields) = 3
    /\ \A i \in 1 .. 3 : yields[i].v = inp[i]
    /\ state = "escape"

\* C9 (Continuation bytes are not control bytes): a byte the decoder accepts
\* causes no lookup, transition or action while the sequence is incomplete;
\* the byte that completes it causes one lookup, at 7E, so that the
\* sequence never enters csi_entry and never ends a string.
ContinuationNotControl ==
    [][pc = "decode" /\ Len(inp') = Len(inp) + 1 /\ pc' # "replay" =>
        IF pc' = "decode"
        THEN UNCHANGED << state, intermediate, parameters, esc_ended_string,
                          yields, calls >>
        ELSE /\ Len(yields') = Len(yields) + 1
             /\ Last(yields').v < 0
             /\ Last(yields').index = \H7E
             /\ state' # "csi_entry"
             /\ state \in { "dcs_passthrough", "osc_string", "other_string",
                            "dcs_ignore" } => state' = state]_vars

\* C9 witness: C2 9C was decoded inside an OSC string, which is still open
ContinuationNotControl_witness ==
    /\ pc = "read"
    /\ state = "osc_string"
    /\ yields # <<>>
    /\ Last(yields).v = -\H9C
    /\ Last(calls).action = "osc_put"

ScalarLookup ==
    \A s \in State, u \in { \H80, \H9B, \H9C, \HFF, \H26DC, \H10FFFF } :
        /\ Lookup(s, -u) = state_transitions[s][\H7E]
        /\ CharOf(-u) = u

\* C10 (Decoded scalars use the entry for 7E): a decoded character is
\* processed with the target and action the current state has for 7E, and
\* the character handed to that action is the decoded value.
ScalarAs7E ==
    [][/\ Constructed => ScalarLookup
       /\ pc = "decode" /\ Len(yields') = Len(yields) + 1 =>
            LET u == Utf8Value(Append(dec, Last(inp')))
                tr == state_transitions[state][\H7E]
            IN  /\ Last(yields').v = -u
                /\ Last(yields').trans = tr
                /\ state' = IF tr.target = None THEN state ELSE tr.target
                /\ tr.action \in HandlerActions =>
                      \E i \in Len(calls) + 1 .. Len(calls') :
                          /\ calls'[i].action = tr.action
                          /\ calls'[i].char = u
                /\ tr.action = "ignore" => calls' = calls]_vars

\* C10 witness: U+009B, decoded in escape, reached the callback as the
\* character of an esc_dispatch
ScalarAs7E_witness ==
    /\ calls # <<>>
    /\ Last(calls).action = "esc_dispatch"
    /\ Last(calls).char = \H9B
    /\ Last(calls).state = "escape"
    /\ Last(yields).v = -\H9B

\* C11 (Decoded scalars are printable data): whenever the callback is
\* called with a character that came from a successful multi-byte decode,
\* the action is print, put or osc_put; the lookup made for a decoded
\* character never gives execute, esc_dispatch or csi_dispatch.
ScalarsPrintable ==
    [][pc = "decode" /\ Len(yields') = Len(yields) + 1 =>
          /\ Last(yields').trans.action
                \notin {"execute", "esc_dispatch", "csi_dispatch"}
          /\ \A i \in Len(calls) + 1 .. Len(calls') :
                calls'[i].char = -Last(yields').v =>
                    calls'[i].action \in {"print", "put", "osc_put"}]_vars

\* the actions process runs on entering or leaving a state and hands to the
\* callback without a character
EntryExitActions == {"hook", "unhook", "osc_start", "osc_end"}

\* C16 as stated (Handler character argument): the callback gets the
\* character -1 only in calls whose action is None; every call with an
\* action carries a code point >= 0.
MinusOneOnlySentinel ==
    \A i \in DOMAIN calls :
        /\ calls[i].char = -1 => calls[i].action = None
        /\ calls[i].action # None => calls[i].char >= 0

\* C16 as amended (Handler character argument): the callback gets the
\* character -1 in the calls whose action is None and in the calls for the
\* entry and exit actions hook, unhook, osc_start and osc_end, and in no
\* other call; every other call carries a code point >= 0.
MinusOneEntryExit ==
    \A i \in DOMAIN calls :
        /\ calls[i].char >= -1
        /\ calls[i].char = -1 <=>
                calls[i].action \in {None} \cup EntryExitActions

\* C16 witness: one parse has called the callback for hook with -1, for put
\* with a code point and for unhook with -1
MinusOneEntryExit_witness ==
    /\ \E i \in DOMAIN calls :
        calls[i].action = "hook" /\ calls[i].char = -1
    /\ \E i \in DOMAIN calls :
        calls[i].action = "put" /\ calls[i].char >= 0
    /\ \E i \in DOMAIN calls :
        calls[i].action = "unhook" /\ calls[i].char = -1

\* C19 (Device-level end of input is end of stream): once a read has failed
\* with EIO, wherever in the stream, parse has not raised: it has made its
\* last call, with action None, and has returned.
EioIsEndOfStream ==
    stream = "EIO" =>
        /\ error = "none"
        /\ pc = "done"
        /\ calls # <<>>
        /\ IsSentinel(Last(calls))

\* the parameter lists there are to look at: the parser's own and the ones
\* the callback saw
SeenParameters == {parameters} \cup { calls[i].parameters : i \in DOMAIN calls }

\* C17 (Parameters is never empty): after construction, after any input,
\* clear action and reset(), parameters holds at least one cell.
ParametersNeverEmpty ==
    \A ps \in SeenParameters : Len(ps) >= 1

\* C17 witness: a control sequence with two parameter cells was dispatched
\* and the clear action of the next one has left a single unset cell
ParametersNeverEmpty_witness ==
    /\ \E i \in DOMAIN calls :
        /\ calls[i].action = "csi_dispatch"
        /\ Len(calls[i].parameters) = 2
    /\ state = "csi_entry"
    /\ parameters = << ParamNone >>

\* a cell that is None or an int
IsScalarCell(cell) ==
    \/ cell = ParamNone
    \/ cell.tag = "int" /\ cell.v \in Nat /\ cell.items = <<>>

\* C18 (Sub-parameter nesting depth is at most 1): every parameter cell is
\* None, an int or a list whose elements are all None or an int, whatever
\* `:`, `;` and digits were read.
NestingDepthOne ==
    \A ps \in SeenParameters :
        \A i \in DOMAIN ps :
            \/ IsScalarCell(ps[i])
            \/ /\ ps[i].tag = "list"
               /\ \A j \in DOMAIN ps[i].items : IsScalarCell(ps[i].items[j])

\* C18 witness: `:` was read twice in one cell and a digit after it
NestingDepthOne_witness ==
    /\ parameters # <<>>
    /\ Last(parameters).tag = "list"
    /\ Len(Last(parameters).items) = 3
    /\ Last(Last(parameters).items).tag = "int"

\* the keys and defaults get is called with
GetKeys == 0 .. 2

GetDefaults == {-1, 1}

\* C20 (Parameters.get): get(index, default) is the integer stored at cell
\* `index`, or the first element of the nested sequence there; it is
\* `default` when the index is out of range, when the cell is unset and when
\* the nested sequence's first element is unset; a stored 0 is returned as 0.
GetContract ==
    \A ps \in SeenParameters : \A key \in GetKeys : \A d \in GetDefaults :
        LET r == get(ps, key, d)
        IN  IF key >= Len(ps) THEN r = d
            ELSE LET cell == ps[key + 1]
                 IN  CASE cell.tag = "int"  -> r = cell.v
                       [] cell.tag = "none" -> r = d
                       [] OTHER ->
                            /\ cell.items # <<>>
                            /\ cell.items[1].tag = "int" => r = cell.items[1].v
                            /\ cell.items[1].tag = "none" => r = d

\* C20 witness: parameters reads [0, [None, 1]]: a stored 0 in cell 0, a
\* nested sequence whose first element is unset in cell 1, no cell 2
GetContract_witness ==
    /\ parameters = << ParamInt(0), ParamList(<< ParamNone, ParamInt(1) >>) >>
    /\ get(parameters, 0, 1) = 0
    /\ get(parameters, 1, 1) = 1
    /\ get(parameters, 2, -1) = -1

\* the callback's calls as pairs of action and character
Acts(cs) == [ i \in DOMAIN cs |-> << cs[i].action, cs[i].char >> ]

\* one call of `action` per byte of a string
ActsOf(action, bytes) == [ i \in DOMAIN bytes |-> << action, bytes[i] >> ]

\* s begins with the bytes of pre
IsPrefix(pre, s) == Len(pre) <= Len(s) /\ SubSeq(s, 1, Len(pre)) = pre

\* the stream has handed over exactly the bytes s so far
HasRead(s) == pc = "read" /\ inp = s

\* C12 (Scenario D, two-byte String Terminator): for ESC P <final byte>
\* <body> ESC \ read by a fresh parser the callback gets hook, one put per
\* body byte, then unhook when the ESC is read; the `\` after it makes no
\* call at all; the parser ends in ground with the suppression flag cleared.
ScenarioD_Suppressed ==
    \A f \in DcsFinals : \A b \in SeqsUpTo(BodyBytes, MaxBody) :
        LET head == << \H1B, \H50, f >> \o b
            open == << << "hook", -1 >> >> \o ActsOf("put", b)
            closed == Append(open, << "unhook", -1 >>)
        IN  /\ HasRead(head) =>
                /\ Acts(calls) = open
                /\ state = "dcs_passthrough"
            /\ HasRead(Append(head, \H1B)) =>
                /\ Acts(calls) = closed
                /\ state = "escape"
                /\ esc_ended_string
            /\ HasRead(ScenarioD(f, b)) =>
                /\ Acts(calls) = closed
                /\ Last(yields).trans.action = "esc_dispatch"
                /\ state = "ground"
                /\ ~esc_ended_string
            /\ pc = "done" /\ inp = ScenarioD(f, b) =>
                /\ Acts(calls) = Append(closed, << None, -1 >>)
                /\ state = "ground"
                /\ ~esc_ended_string

\* C12 witness: ESC P q <space> q ESC \ has been parsed to its end
ScenarioD_Suppressed_witness ==
    /\ pc = "done"
    /\ inp = ScenarioD(\H71, << \H20, \H71 >>)
    /\ Len(calls) = 5

\* C13 (Scenario C, OSC ended by BEL): for ESC ] 0 ; t i t l e BEL read by a
\* fresh parser the callback gets osc_start, one osc_put per character of
\* `0;title` in order, then osc_end when the BEL is read; the BEL's own
\* action is ignore and no call is an execute; the parser ends in ground.
ScenarioC_Bel ==
    LET text == SubSeq(ScenarioC, 3, 9)
        open == << << "osc_start", -1 >> >> \o ActsOf("osc_put", text)
        closed == Append(open, << "osc_end", -1 >>)
    IN  /\ HasRead(SubSeq(ScenarioC, 1, 9)) =>
            /\ Acts(calls) = open
            /\ state = "osc_string"
        /\ HasRead(ScenarioC) =>
            /\ Acts(calls) = closed
            /\ Last(yields).v = \H07
            /\ Last(yields).trans = to("ground", "ignore")
            /\ state = "ground"
        /\ pc = "done" /\ inp = ScenarioC =>
            /\ Acts(calls) = Append(closed, << None, -1 >>)
            /\ state = "ground"
        /\ IsPrefix(inp, ScenarioC) =>
            \A i \in DOMAIN calls : calls[i].action # "execute"

\* C13 witness: the whole of ESC ] 0 ; t i t l e BEL has been parsed
ScenarioC_Bel_witness ==
    /\ pc = "done"
    /\ inp = ScenarioC
    /\ calls[9].action = "osc_end"

\* C14 (Scenario A): for ESC [ 3 1 m read by a fresh parser, clear is the
\* entry action of csi_entry, param runs for `3` and then for `1` so that
\* parameters reads [31], and the callback then gets exactly one
\* csi_dispatch, with `m`, seeing parameters [31] and no intermediates; the
\* parser ends in ground.
ScenarioA_Dispatch ==
    /\ HasRead(SubSeq(ScenarioA, 1, 2)) =>
        /\ yields[2].trans.target = "csi_entry"
        /\ on_entry["csi_entry"] = "clear"
        /\ state = "csi_entry"
        /\ parameters = << ParamNone >>
        /\ intermediate = <<>>
    /\ HasRead(SubSeq(ScenarioA, 1, 3)) =>
        /\ yields[3].trans.action = "param"
        /\ parameters = << ParamInt(3) >>
    /\ HasRead(SubSeq(ScenarioA, 1, 4)) =>
        /\ yields[4].trans.action = "param"
        /\ parameters = << ParamInt(31) >>
        /\ calls = <<>>
    /\ inp = ScenarioA =>
        /\ Acts(calls) = IF pc = "done"
                         THEN << << "csi_dispatch", \H6D >>, << None, -1 >> >>
                         ELSE << << "csi_dispatch", \H6D >> >>
        /\ calls[1].parameters = << ParamInt(31) >>
        /\ calls[1].intermediate = <<>>
        /\ state = "ground"

\* C14 witness: the whole of ESC [ 3 1 m has been parsed
ScenarioA_Dispatch_witness ==
    /\ pc = "done"
    /\ inp = ScenarioA
    /\ calls[1].action = "csi_dispatch"

\* the integers as cells
Ints(ns) == [ i \in DOMAIN ns |-> ParamInt(ns[i]) ]

\* C15 (Scenario B, sub-parameters): for ESC [ 3 8 : 2 : 2 5 5 : 0 : 0 m
\* read by a fresh parser the callback gets a single csi_dispatch, with `m`,
\* and sees parameters as one cell holding [38, 2, 255, 0, 0]: a 0 typed as
\* the digit 0 is the integer 0, not an unset element.
ScenarioB_SubParameters ==
    /\ HasRead(SubSeq(ScenarioB, 1, 11)) =>
        parameters = << ParamList(Append(Ints(<< 38, 2, 255 >>), ParamNone)) >>
    /\ HasRead(SubSeq(ScenarioB, 1, 12)) =>
        parameters = << ParamList(Ints(<< 38, 2, 255, 0 >>)) >>
    /\ inp = ScenarioB =>
        /\ Acts(calls) = IF pc = "done"
                         THEN << << "csi_dispatch", \H6D >>, << None, -1 >> >>
                         ELSE << << "csi_dispatch", \H6D >> >>
        /\ calls[1].parameters = << ParamList(Ints(<< 38, 2, 255, 0, 0 >>)) >>
        /\ state = "ground"

\* C15 witness: the whole of ESC [ 3 8 : 2 : 2 5 5 : 0 : 0 m has been parsed
ScenarioB_SubParameters_witness ==
    /\ pc = "done"
    /\ inp = ScenarioB
    /\ Len(calls[1].parameters) = 1

\* cells and parameter lists a caller can build, the empty list among them
SomeCells ==
    { ParamNone, ParamInt(0), ParamInt(1),
      ParamList(<< ParamNone, ParamNone >>),
      ParamList(<< ParamInt(0), ParamNone >>) }

SomeParameters == SeqsUpTo(SomeCells, 2)

\* no cell, or one cell that is unset
NothingTyped(ps) ==
    \/ Len(ps) = 0
    \/ Len(ps) = 1 /\ ps[1].tag = "none"

\* C21 (Parameters truthiness): a Parameters value is falsy exactly when it
\* has no cell or is one unset cell; every other value, [0], [None, None]
\* and one cell holding a nested sequence among them, is truthy.
Truthiness ==
    /\ Constructed =>
        /\ \A ps \in SomeParameters : __bool__(ps) <=> ~NothingTyped(ps)
        /\ ~__bool__(<<>>)
        /\ ~__bool__(<< ParamNone >>)
        /\ __bool__(<< ParamInt(0) >>)
        /\ __bool__(<< ParamNone, ParamNone >>)
        /\ __bool__(<< ParamList(<< ParamNone, ParamNone >>) >>)
    /\ \A ps \in SeenParameters : __bool__(ps) <=> ~NothingTyped(ps)

\* C21 witness: the callback saw the falsy [None] at one call, the parser
\* now holds the truthy [0]
Truthiness_witness ==
    /\ \E i \in DOMAIN calls : ~__bool__(calls[i].parameters)
    /\ parameters = << ParamInt(0) >>
    /\ __bool__(parameters)

\* one call of `action` if the callback is called for it, none otherwise
CallFor(action) ==
    IF action \in HandlerActions THEN << action >> ELSE <<>>

\* the actions of the calls a sequence of calls holds
ActionsOf(cs) == [ i \in DOMAIN cs |-> cs[i].action ]

\* C22 (Order of actions in a transition): for an input value whose table
\* entry has a target, the exit action of the current state, the
\* transition's own action and the entry action of the target run in this
\* order and the new state is set last, so that every call made on the way
\* shows the source state; this also holds when the target is the current
\* state (9D read in osc_string gives osc_end, then osc_start).
TransitionOrder ==
    [][Len(yields') = Len(yields) + 1 /\ Last(yields').trans.target # None
         /\ error' = "none" =>
          LET y == Last(yields')
              tr == y.trans
              withheld == /\ esc_ended_string
                          /\ tr.action = "esc_dispatch"
                          /\ CharOf(y.v) = \H5C
              made == SubSeq(calls', Len(calls) + 1, Len(calls'))
          IN  /\ y.state = state
              /\ ActionsOf(made) =
                    (IF state \in DOMAIN on_exit
                     THEN CallFor(on_exit[state]) ELSE <<>>)
                    \o (IF withheld THEN <<>> ELSE CallFor(tr.action))
                    \o (IF tr.target \in DOMAIN on_entry
                        THEN CallFor(on_entry[tr.target]) ELSE <<>>)
              /\ \A i \in DOMAIN made : made[i].state = state
              /\ state' = tr.target]_vars

\* C22 witness: 9D was read in osc_string: the callback got osc_end and then
\* osc_start, both showing osc_string
TransitionOrder_witness ==
    /\ inp = << \H9D, \H9D >>
    /\ Len(calls) = 3
    /\ calls[2].action = "osc_end"
    /\ calls[3].action = "osc_start"
    /\ calls[2].state = "osc_string"
    /\ calls[3].state = "osc_string"

\* the code points the anywhere rules are about
AnywhereCodes == {\H18, \H1A, \H1B} \cup (\H80 .. \H9F)

\* what is to be found at such a code point, in any state
AnywhereEntry(i) ==
    CASE i \in {\H18, \H1A}       -> to("ground", "execute")
      [] i = \H1B                 -> to("escape", None)
      [] i = \H90                 -> to("dcs_entry", None)
      [] i = \H9B                 -> to("csi_entry", None)
      [] i = \H9D                 -> to("osc_string", None)
      [] i \in {\H98, \H9E, \H9F} -> to("other_string", None)
      [] i = \H9C                 -> to("ground", "ignore")
      [] OTHER                    -> to("ground", "execute")

\* C23 (Anywhere rules override state rules): in each of the 14 states 18
\* and 1A go to ground with execute, 1B to escape with no action, 90 to
\* dcs_entry, 9B to csi_entry, 9D to osc_string, 98/9E/9F to other_string,
\* 9C to ground with ignore and every other code point of 80-9F to ground
\* with execute, whatever the state's own rules say; so does every lookup
\* parse makes for such a byte.
AnywhereOverrides ==
    /\ Constructed =>
        \A s \in State : \A i \in AnywhereCodes :
            state_transitions[s][i] = AnywhereEntry(i)
    /\ \A k \in DOMAIN yields :
        yields[k].index \in AnywhereCodes =>
            yields[k].trans = AnywhereEntry(yields[k].index)

\* C23 witness: ST was read in osc_string and ESC in csi_entry
AnywhereOverrides_witness ==
    /\ \E k \in DOMAIN yields :
        yields[k].index = \H9C /\ yields[k].state = "osc_string"
    /\ \E k \in DOMAIN yields :
        yields[k].index = \H1B /\ yields[k].state = "csi_entry"

\* C24 (Internal actions stay internal): the callback is never called with
\* ignore, clear, collect or param; every call with an action has one of
\* print, execute, esc_dispatch, csi_dispatch, hook, put, unhook, osc_start,
\* osc_put, osc_end.
InternalActionsHidden ==
    \A i \in DOMAIN calls :
        /\ calls[i].action \notin {"ignore", "clear", "collect", "param"}
        /\ calls[i].action # None =>
            calls[i].action \in
                { "print", "execute", "esc_dispatch", "csi_dispatch", "hook",
                  "put", "unhook", "osc_start", "osc_put", "osc_end" }

\* C24 witness: clear, collect, param and ignore have all run (ESC, space,
\* `1`, then ST) and the callback was called once, for the esc_dispatch
InternalActionsHidden_witness ==
    /\ inp = << \H1B, \H20, \H31, \H9C >>
    /\ pc = "read"
    /\ Len(calls) = 1
    /\ calls[1].action = "esc_dispatch"
    /\ calls[1].intermediate = << \H20 >>

\* the sequence digits go into: the nested one of the last cell if there is
\* one, the top-level one otherwise
OpenSeq(ps) == IF Last(ps).tag = "list" THEN Last(ps).items ELSE ps

\* C25 (Parameter accumulation): a param action does one of three things:
\* for `;` it appends an unset top-level cell; for `:` it turns the last cell
\* into [old value, unset] or appends an unset element to its nested
\* sequence; for a digit it sets the last element of the open sequence to
\* value*10 + d (unset counted as 0) with d in 0..9. This holds for every
\* byte the table gives param for, 30-3B and, folded onto them, B0-BB.
ParamAccumulation ==
    [][Len(yields') = Len(yields) + 1 /\ Last(yields').trans.action = "param"
         /\ error' = "none" =>
          LET code == Last(yields').index
              d == code - \H30
          IN  CASE code = \H3B ->
                     parameters' = Append(parameters, ParamNone)
                [] code = \H3A ->
                     parameters' =
                        SetLast(parameters,
                            IF Last(parameters).tag = "list"
                            THEN ParamList(Append(Last(parameters).items,
                                                  ParamNone))
                            ELSE ParamList(<< Last(parameters), ParamNone >>))
                [] OTHER ->
                     LET open == SetLast(OpenSeq(parameters),
                                    ParamInt(OrZero(Last(OpenSeq(parameters)))
                                             * 10 + d))
                     IN  /\ d \in 0 .. 9
                         /\ parameters' =
                                IF Last(parameters).tag = "list"
                                THEN SetLast(parameters, ParamList(open))
                                ELSE open]_vars

IgnoreStates == {"csi_ignore", "dcs_ignore"}

\* the code points of r_normal_c0
NormalC0 == (\H00 .. \H17) \cup {\H19} \cup (\H1C .. \H1F)

\* the dispatch-class code points
FinalCodes == \H40 .. \H7E

\* an input value is consumed in csi_ignore or dcs_ignore
ReadInIgnore ==
    /\ Len(yields') = Len(yields) + 1
    /\ state \in IgnoreStates
    /\ error' = "none"

\* C26 as stated (Malformed sequences are swallowed silently): in
\* csi_ignore and dcs_ignore no input value that leaves the parser there
\* causes an action other than ignore, and the callback is not called for it.
IgnoreStatesSilent ==
    [][ReadInIgnore /\ state' = state =>
          /\ Last(yields').trans.action \in {None, "ignore"}
          /\ calls' = calls]_vars

\* the rows of the two states, as the amended C26 has them
IgnoreRows ==
    \A i \in DenseIndex :
        LET c == state_transitions["csi_ignore"][i]
            d == state_transitions["dcs_ignore"][i]
        IN  /\ c.target = None =>
                c.action = IF i \in NormalC0 THEN "execute" ELSE "ignore"
            /\ d.target = None => d.action = "ignore"

\* C26 as amended: in dcs_ignore no input value that leaves the parser there
\* causes an action other than ignore, and the callback is not called for
\* it; in csi_ignore the same holds but for the C0 controls 00-17, 19 and
\* 1C-1F, which are executed: the callback is called once, with execute.
IgnoreStatesExecuteC0 ==
    [][/\ Constructed => IgnoreRows
       /\ ReadInIgnore /\ state' = state =>
            LET y == Last(yields')
                made == SubSeq(calls', Len(calls) + 1, Len(calls'))
            IN  IF state = "csi_ignore" /\ y.v \in NormalC0
                THEN /\ y.trans = do("execute")
                     /\ Acts(made) = << << "execute", y.v >> >>
                ELSE /\ y.trans = do("ignore")
                     /\ made = <<>>]_vars

\* C26 witness: LF was read in csi_ignore and executed, the parser is still
\* in csi_ignore
IgnoreStatesExecuteC0_witness ==
    /\ state = "csi_ignore"
    /\ calls # <<>>
    /\ Last(calls).state = "csi_ignore"
    /\ Last(calls).action = "execute"
    /\ Last(calls).char = \H0A

\* C27 as stated (Resynchronisation): from csi_ignore and from dcs_ignore
\* the next dispatch-class byte (40-7E) makes the parser leave the state,
\* and no csi_dispatch or hook is delivered.
IgnoreResync ==
    [][ReadInIgnore /\ Last(yields').v \in FinalCodes =>
          /\ state' # state
          /\ \A i \in Len(calls) + 1 .. Len(calls') :
                calls'[i].action \notin {"csi_dispatch", "hook"}]_vars

\* the rows of the two states, as the amended C27 has them
ResyncRows ==
    /\ \A i \in FinalCodes :
        /\ state_transitions["csi_ignore"][i] = to("ground", None)
        /\ state_transitions["dcs_ignore"][i] = do("ignore")
    /\ \A i \in DenseIndex :
        /\ state_transitions["csi_ignore"][i].action # "csi_dispatch"
        /\ state_transitions["dcs_ignore"][i].target # "dcs_passthrough"
        /\ state_transitions["dcs_ignore"][i].target # None =>
                i \in AnywhereCodes

\* C27 as amended: from csi_ignore the next dispatch-class byte (40-7E)
\* takes the parser to ground with no action, so no csi_dispatch is
\* delivered; dcs_ignore ignores a dispatch-class byte and stays: it is left
\* only by an anywhere rule (CAN, SUB, ESC, a C1 control), and no hook is
\* delivered.
CsiIgnoreResync ==
    [][/\ Constructed => ResyncRows
       /\ ReadInIgnore /\ Last(yields').v \in FinalCodes =>
            /\ state' = IF state = "csi_ignore" THEN "ground" ELSE state
            /\ calls' = calls]_vars

\* C27 witness: CSI 1 < \ has been read: the `\` took the parser from
\* csi_ignore to ground and the callback was never called
CsiIgnoreResync_witness ==
    /\ inp = << \H9B, \H31, \H3C, \H5C >>
    /\ Last(yields).state = "csi_ignore"
    /\ state = "ground"
    /\ calls = <<>>

\* C28 (Only the second byte of a String Terminator is swallowed): an
\* esc_dispatch with `\` is withheld from the callback only if the `\` is the
\* input value right after the ESC that ended a dcs_passthrough or an
\* osc_string; in every other case the esc_dispatch is delivered; and the
\* suppression flag is never set while the parser is in ground.
OnlyStSwallowed ==
    [][Len(yields') = Len(yields) + 1 /\ error' = "none" =>
          LET y == Last(yields')
              made == SubSeq(calls', Len(calls) + 1, Len(calls'))
          IN  /\ ( /\ y.trans.action = "esc_dispatch"
                   /\ CharOf(y.v) = \H5C
                   /\ \A i \in DOMAIN made : made[i].action # "esc_dispatch"
                   /\ yields # <<>> )
                    => /\ Last(yields).v = \H1B
                       /\ Last(yields).state \in {"dcs_passthrough", "osc_string"}
              /\ state' = "ground" => ~esc_ended_string']_vars

\* the states whose entry action is clear
Introduced == {"escape", "csi_entry", "dcs_entry"}

\* the place in the history of the value that last entered such a state, 0
\* if there is none
LastIntroducer(ys) ==
    LET ks == { k \in DOMAIN ys : ys[k].trans.target \in Introduced }
    IN  IF ks = {} THEN 0 ELSE CHOOSE k \in ks : \A j \in ks : j <= k

RECURSIVE CharsSince(_, _, _)
\* the characters of the values after place k that the table gave `action`
\* for, in the order read
CharsSince(ys, k, action) ==
    IF k >= Len(ys) THEN <<>>
    ELSE (IF ys[k + 1].trans.action = action
          THEN << CharOf(ys[k + 1].v) >> ELSE <<>>)
         \o CharsSince(ys, k + 1, action)

RECURSIVE Accumulate(_, _)
\* the parameters a single unset cell becomes by the param action on chars
Accumulate(p, chars) ==
    IF chars = <<>> THEN p.parameters
    ELSE Accumulate(Param(p, Head(chars)), Tail(chars))

\* the last value read made the last call, a dispatch or a hook
LastCallDispatched ==
    /\ yields # <<>>
    /\ calls # <<>>
    /\ \/ /\ Last(calls).action \in {"esc_dispatch", "csi_dispatch"}
          /\ Last(yields).trans.action = Last(calls).action
       \/ /\ Last(calls).action = "hook"
          /\ Last(yields).trans.target = "dcs_passthrough"

\* C29 (clear on entry): every transition into escape, csi_entry or
\* dcs_entry empties the intermediate buffer and leaves parameters as one
\* unset cell, so the intermediates and parameters of the parser, and those
\* the callback sees at an esc_dispatch, csi_dispatch or hook, are made of
\* the bytes read after the latest introducer only.
ClearOnEntry ==
    LET k == LastIntroducer(yields)
        collected == CharsSince(yields, k, "collect")
        accumulated == Accumulate(clear(Self), CharsSince(yields, k, "param"))
    IN  k > 0 /\ error = "none" =>
            /\ intermediate = collected
            /\ parameters = accumulated
            /\ LastCallDispatched =>
                /\ Last(calls).intermediate = collected
                /\ Last(calls).parameters = accumulated

\* C29 witness: CSI 1 CSI \ was read: the csi_dispatch shows one unset
\* parameter, not the 1 of the sequence that was cut short
ClearOnEntry_witness ==
    /\ inp = << \H9B, \H31, \H9B, \H5C >>
    /\ LastCallDispatched
    /\ Last(calls).action = "csi_dispatch"
    /\ Last(calls).parameters = << ParamNone >>

\* the exceptions process can raise by itself
InternalErrors == {"AssertionError", "IndexError", "ValueError"}

\* C30 (No input trips an assertion): whatever is read by a fresh or reset
\* parser, the assertions of process hold (param runs with a character
\* >= 0, parameters is not empty, the cell accumulated into is unset or an
\* int), and collect never runs with the character -1.
NoInternalError ==
    /\ error \notin InternalErrors
    /\ Constructed =>
        /\ \A s \in DOMAIN on_entry : on_entry[s] \notin {"param", "collect"}
        /\ \A s \in DOMAIN on_exit : on_exit[s] \notin {"param", "collect"}

\* C30 witness: digits were accumulated into a nested sequence and into a
\* top-level cell after it, and a sequence was dispatched
NoInternalError_witness ==
    /\ error = "none"
    /\ \E i \in DOMAIN calls :
        /\ calls[i].action = "csi_dispatch"
        /\ Len(calls[i].parameters) = 2
        /\ calls[i].parameters[1].tag = "list"
        /\ calls[i].parameters[2].tag = "int"

\* C31 (Fatal I/O failure): once a read of the stream has failed with an
\* OSError other than EIO, parse has raised that error and has made no call
\* with action None; the calls it made before are there, and their raw spans
\* and the bytes not yet shown are, in order, all the bytes read.
FatalReadError ==
    stream = "OSError" =>
        /\ pc = "raised"
        /\ error = "OSError"
        /\ \A i \in DOMAIN calls : ~IsSentinel(calls[i])
        /\ ConcatRaw(calls) \o curr_raw = inp

\* C31 witness: the read after ESC [ 1 failed; nothing was delivered for the
\* unfinished control sequence, the call for the byte before it was
FatalReadError_witness ==
    /\ stream = "OSError"
    /\ pc = "raised"
    /\ inp = << \H20, \H9B, \H31 >>
    /\ Acts(calls) = << << "print", \H20 >> >>
    /\ curr_raw = << \H9B, \H31 >>

\* the calls of the current parse before its last one
BeforeLast == SubSeq(calls, 1, Len(calls) - 1)

\* the last of the calls cs is one of the actions `inside`, and no call with
\* action `closing` comes after the last one with action `opening`
LeftOpen(cs, opening, inside, closing) ==
    /\ cs # <<>> => Last(cs).action \in inside
    /\ \A i \in DOMAIN cs :
        cs[i].action = closing =>
            \E j \in DOMAIN cs : j > i /\ cs[j].action = opening

\* C32 (Truncated strings are not closed): when parse has returned with the
\* parser in dcs_passthrough (osc_string), its last call is the one with
\* action None, the call before it is a hook or put (osc_start or osc_put),
\* and no unhook (osc_end) follows the last hook (osc_start).
TruncatedNotClosed ==
    pc = "done" =>
        /\ state = "dcs_passthrough" =>
              /\ IsSentinel(Last(calls))
              /\ LeftOpen(BeforeLast, "hook", {"hook", "put"}, "unhook")
        /\ state = "osc_string" =>
              /\ IsSentinel(Last(calls))
              /\ LeftOpen(BeforeLast, "osc_start", {"osc_start", "osc_put"},
                          "osc_end")

\* C32 witness: the stream OSC 1 and the stream DCS `\` SP each ended inside
\* the string; in both the handler got the opening call, the call for the
\* body and the call with action None
TruncatedNotClosed_witness ==
    /\ pc = "done"
    /\ \/ /\ state = "osc_string"
          /\ inp = << \H9D, \H31 >>
          /\ Acts(calls) = << << "osc_start", -1 >>, << "osc_put", \H31 >>,
                              << None, -1 >> >>
       \/ /\ state = "dcs_passthrough"
          /\ inp = << \H90, \H5C, \H20 >>
          /\ Acts(calls) = << << "hook", -1 >>, << "put", \H20 >>,
                              << None, -1 >> >>

\* the states of a device control string's header
DcsHeaderStates == {"dcs_entry", "dcs_param", "dcs_intermediate"}

\* the entries for BEL: a transition, to ground, in osc_string only; the
\* other code points of r_normal_c0 are ignored in osc_string
BelRows ==
    /\ \A st \in State :
        LET tr == state_transitions[st][\H07]
        IN  IF st = "osc_string"
            THEN tr.target = "ground"
            ELSE /\ tr.target = None
                 /\ tr.action = IF st = "dcs_passthrough" THEN "put"
                                ELSE IF st \in DcsHeaderStates
                                          \cup {"dcs_ignore", "other_string"}
                                THEN "ignore"
                                ELSE "execute"
    /\ \A i \in NormalC0 \ {\H07} :
        state_transitions["osc_string"][i] = do("ignore")

\* the byte b is read by the outer loop
Reads(b) == pc = "read" /\ inp' = Append(inp, b)

\* C33 (BEL terminates only OSC strings): the byte 07 read in a state other
\* than osc_string leaves the state as it is, the callback seeing an execute
\* of it, in dcs_passthrough a put, in the other states of a string nothing;
\* read in osc_string it takes
\* the parser to ground, the callback seeing osc_end and nothing of the BEL;
\* LF read in osc_string changes nothing and the callback is not called. The
\* table has it so for every state, and for every other ordinary C0 code
\* point in osc_string.
BelOnlyEndsOsc ==
    [][/\ Constructed => BelRows
       /\ Reads(\H07) =>
             IF state = "osc_string"
             THEN /\ state' = "ground"
                  /\ Acts(calls') = Acts(calls) \o << << "osc_end", -1 >> >>
             ELSE /\ state' = state
                  /\ Acts(calls') = Acts(calls) \o
                        (IF state = "dcs_passthrough"
                         THEN << << "put", \H07 >> >>
                         ELSE IF state \in DcsHeaderStates
                                   \cup {"dcs_ignore", "other_string"}
                         THEN <<>>
                         ELSE << << "execute", \H07 >> >>)
       /\ Reads(\H0A) /\ state = "osc_string" =>
             /\ state' = state
             /\ calls' = calls]_vars

\* C33 witness: after OSC `A` BEL the parser is in ground and the callback
\* has seen the string closed, not the BEL
BelOnlyEndsOsc_witness ==
    /\ inp = << \H9D, \H41, \H07 >>
    /\ state = "ground"
    /\ Acts(calls) = << << "osc_start", -1 >>, << "osc_put", \H41 >>,
                        << "osc_end", -1 >> >>

\* the calls cs open and close their brackets in turn: `dcs` and `osc` say
\* whether a hook and an osc_start are open before them
RECURSIVE Nested(_, _, _)
Nested(cs, dcs, osc) ==
    IF cs = <<>> THEN TRUE
    ELSE LET a == Head(cs).action
         IN  CASE a = "hook"      -> ~dcs /\ ~osc /\ Nested(Tail(cs), TRUE, osc)
               [] a = "put"       -> dcs /\ Nested(Tail(cs), dcs, osc)
               [] a = "unhook"    -> dcs /\ Nested(Tail(cs), FALSE, osc)
               [] a = "osc_start" -> ~osc /\ ~dcs /\ Nested(Tail(cs), dcs, TRUE)
               [] a = "osc_put"   -> osc /\ Nested(Tail(cs), dcs, osc)
               [] a = "osc_end"   -> osc /\ Nested(Tail(cs), dcs, FALSE)
               [] OTHER           -> Nested(Tail(cs), dcs, osc)

\* the current parse is the first one since the Parser was constructed or
\* reset
FirstParse == pc # "idle" /\ nread = Len(inp)

\* C34 (String brackets are well nested): in the calls of one parse on a
\* fresh parser hook and unhook take turns, hook first, and every put has a
\* hook open; the same for osc_start, osc_end and osc_put; no hook comes
\* while an osc_start is open and no osc_start while a hook is.
BracketsNested ==
    FirstParse => Nested(calls, FALSE, FALSE)

\* C34 witness: a device control string was opened, had a body and was
\* closed by the OSC that opened the next string
BracketsNested_witness ==
    /\ FirstParse
    /\ inp = << \H90, \H5C, \H31, \H9D >>
    /\ ActionsOf(calls) = << "hook", "put", "unhook", "osc_start" >>

\* the states inside a string
StringStates ==
    {"dcs_passthrough", "osc_string", "other_string", "dcs_ignore"}
        \cup DcsHeaderStates

\* the parser as it is, with no calls recorded yet
Here == [Self EXCEPT !.calls = <<>>]

RECURSIVE FeedAll(_, _)
\* the values cs go through the body of parse's loop one after the other
FeedAll(p, cs) ==
    IF cs = <<>> THEN p ELSE FeedAll(Feed(p, Head(cs)), Tail(cs))

\* C35 (The two forms of String Terminator are equivalent): wherever a parse
\* stands inside a string (dcs_passthrough, osc_string, other_string,
\* dcs_ignore, dcs_entry, dcs_param or dcs_intermediate), reading ESC `\`
\* next and reading 9C next cause the same calls and both end in ground, and
\* the `\` is not reported as an esc_dispatch.
StEquivalent ==
    pc = "read" /\ state \in StringStates =>
        LET two == FeedAll(Here, << \H1B, \H5C >>)
            one == FeedAll(Here, << \H9C >>)
        IN  /\ Acts(two.calls) = Acts(one.calls)
            /\ two.state = "ground"
            /\ one.state = "ground"
            /\ \A i \in DOMAIN two.calls :
                   two.calls[i].action # "esc_dispatch"

\* longest continuation of a stream that is looked at
MaxCont == 2

\* the values a continuation is made of
ContBytes == { \H1B, \H31, \H5C, \H9C }

\* the final bytes of the 7-bit introducers with their 8-bit forms
Introducers ==
    { << \H50, \H90 >>, << \H5B, \H9B >>, << \H5D, \H9D >>,
      << \H58, \H98 >>, << \H5E, \H9E >>, << \H5F, \H9F >> }

\* C36 (7-bit and 8-bit introducers are interchangeable): wherever a parse
\* stands, reading ESC F next and reading the 8-bit form of the introducer
\* next cause the same calls and reach the same state, and whatever is read
\* after them causes the same calls in both cases.
IntroducersInterchangeable ==
    pc = "read" =>
        \A fc \in Introducers :
            LET two == FeedAll(Here, << \H1B, fc[1] >>)
                one == FeedAll(Here, << fc[2] >>)
            IN  /\ Acts(two.calls) = Acts(one.calls)
                /\ two.state = one.state
                /\ \A cont \in SeqsUpTo(ContBytes, MaxCont) :
                       Acts(FeedAll(two, cont).calls)
                           = Acts(FeedAll(one, cont).calls)

\* the intermediate buffers there are to look at: the parser's own and the
\* ones the callback saw
SeenIntermediates ==
    {intermediate} \cup { calls[i].intermediate : i \in DOMAIN calls }

\* C37 (Intermediate buffer content): every character of the intermediate
\* buffer, in the parser and in every view the callback had of it, is in
\* 20..2F or 3C..3F; no 8-bit value and no decoded scalar is in it.
IntermediateContent ==
    \A im \in SeenIntermediates :
        \A i \in DOMAIN im :
            im[i] \in (\H20 .. \H2F) \cup (\H3C .. \H3F)

\* C38 (What the sentinel call sees): the one call reset() makes shows state
\* ground and the flag cleared, with the intermediates, the parameters and
\* the raw bytes as they were before the reset; the last call of a parse that
\* returns shows the state, the flag, the intermediates, the parameters and
\* the raw bytes the stream ended with.
SentinelView ==
    [][/\ pc' = "idle" =>
            calls' = << [ action |-> None, char |-> -1, raw |-> curr_raw,
                          state |-> "ground", intermediate |-> intermediate,
                          parameters |-> parameters,
                          esc_ended_string |-> FALSE ] >>
       /\ pc' = "done" =>
            Last(calls') = [ action |-> None, char |-> -1, raw |-> curr_raw,
                             state |-> state, intermediate |-> intermediate,
                             parameters |-> parameters,
                             esc_ended_string |-> esc_ended_string ]]_vars

\* C38 witness: reset() after a parse of CSI 1 SP that raised: its call saw
\* ground with the intermediate, the parameter and the three raw bytes, which
\* are gone now
SentinelView_witness ==
    /\ pc = "idle"
    /\ calls = << [ action |-> None, char |-> -1,
                    raw |-> << \H9B, \H31, \H20 >>, state |-> "ground",
                    intermediate |-> << \H20 >>,
                    parameters |-> << ParamInt(1) >>,
                    esc_ended_string |-> FALSE ] >>
    /\ intermediate = <<>>
    /\ parameters = << ParamNone >>
    /\ curr_raw = <<>>

RECURSIVE OutputSize(_)
\* the sizes of the `O` entries added up
OutputSize(entries) ==
    IF entries = <<>> THEN 0
    ELSE (IF Head(entries).type = "O" THEN Head(entries).size ELSE 0)
            + OutputSize(Tail(entries))

\* C39 (ScriptLog as an input source): after any sequence of readinto calls,
\* the last call has returned the number of bytes it copied into the buffer,
\* the bytes delivered so far are no more than the sizes of the `O` entries
\* together, and a call made when that many had been delivered or the output
\* file was exhausted has returned 0.
ReadintoContract ==
    log.returned >= 0 =>
        /\ log.returned = log.copied
        /\ log.delivered <= OutputSize(log.entries)
        /\ log.exhausted => log.returned = 0

\* C40 (The sentinel flushes the handler's open context): a run of print
\* actions whose opening quote DescriptiveHandler has written is open only
\* while the last call was a print; once a call with another action has been
\* handled, the call with action None at the end of a stream or in reset()
\* included, its closing quote has been written.
SentinelFlushes ==
    handler.open => handler.last_action = "print"

====
